---- MODULE Spec2Model ----
(***************************************************************************)
(* Offline synchronisation engine of the jira CLI: the local ticket store  *)
(* (storage.mjs), the change queue (edit / comment / link / delete /      *)
(* mark), the incremental pull with its sync-state ledger (pull.mjs) and   *)
(* the apply reconciler (apply.mjs), run against a remote Jira whose       *)
(* calls may fail.                                                         *)
(***************************************************************************)
EXTENDS Integers, Sequences, FiniteSets, TLC

(***************************************************************************)
(* Bounds of the model.                                                    *)
(***************************************************************************)
\* Real time runs from 0 to MaxTime.
MaxTime == 1
\* The local clock and the remote clock differ by at most MaxSkew.
MaxSkew == 1
\* Changes made at the remote by other users, in total.
MaxRemoteEdits == 1
\* Queued comments per record.
MaxComments == 2
\* Queued link operations per record.
MaxLinks == 2
\* Comments held by one remote issue.
MaxRemoteComments == 3
\* Pull and apply commands the user runs, in total.
MaxRuns == 2
\* Edit, comment, link, delete and mark commands the user runs, in total.
MaxQueued == 3

(***************************************************************************)
(* The universe: one configured host with two sync patterns, two issues.   *)
(***************************************************************************)
HostUrl == "https://h1"
Keys == {"A-1", "A-2"}
Statuses == {"Open", "Done"}
Summaries == {"s0", "s1"}
CommentTexts == {"c1", "c2"}
\* A label, like every string the commands take apart, is the sequence of
\* its characters.
LabelX == <<"x">>
LabelY == <<"y">>
\* The label lists other users give an issue.
RemoteLabels == {<<LabelX>>, <<LabelY>>, <<LabelX, LabelY>>}
\* The values of `jira edit <id> labels <value>`: +x, -x, +y and "x, y".
LabelValues == {<<"+", "x">>, <<"-", "x">>, <<"+", "y">>, <<"x", ",", " ", "y">>}

\* The url of a second configured host.
OtherHostUrl == "https://h2"

LinkType == "Relates"
\* config.yaml: hosts.h1.sync, in order.  p1 has no result cap, p2 caps at 1.
SyncPatterns == <<"p1", "p2">>
PatternSet == {"p1", "p2"}

\* An optional value (null / undefined in the source) is <<>> or <<v>>.
None == <<>>
Some(v) == <<v>>
IsSome(o) == o # <<>>
Val(o) == o[1]

SeqToSet(s) == {s[i] : i \in 1..Len(s)}

VARIABLES
    time,       \* real time
    skew,       \* local clock minus remote clock
    remote,     \* the remote Jira: key -> issue
    rlinks,     \* the remote Jira's issue links
    redits,     \* number of changes made at the remote by other users
    store,      \* storage/<id>.md: id -> ticket (front matter)
    syncState,  \* .cache/sync-state.yaml: pattern key -> cursor
    pull,       \* the running `jira pull`, if any
    apply,      \* the running `jira apply`, if any
    runs,       \* number of pull and apply commands run so far
    queued,     \* number of edit, comment, link, delete and mark commands run so far
    torn,       \* the ids whose file a crash left partly written
    said,       \* what the last `jira delete` printed, and of which ticket
    exitStatus, \* the exit status of the command that ended last
    lib         \* a function called on its own: its arguments and what it returned

vars == <<time, skew, remote, rlinks, redits, store, syncState, pull, apply, runs, queued, torn, said, exitStatus, lib>>

(***************************************************************************)
(* Clocks.  new Date() reads the local clock; Jira stamps `updated` and    *)
(* changelog entries with its own.                                         *)
(***************************************************************************)
LocalNow == time + (IF skew > 0 THEN skew ELSE 0)
RemoteNow == time + (IF skew < 0 THEN 0 - skew ELSE 0)

\* A timestamp string shows the clock that wrote it: toISOString() ends in
\* "Z", Jira's `updated` carries an offset ("+0000").
LocalStamp(t) == [src |-> "local", t |-> t]
RemoteStamp(t) == [src |-> "remote", t |-> t]

(***************************************************************************)
(* lib/id.mjs                                                              *)
(***************************************************************************)
\* SHA1 of "host:key" in hex: an injective map from (host, key) to ids.
generateId(host, key) == host \o ":" \o key

Ids == {generateId(HostUrl, k) : k \in Keys}

(***************************************************************************)
(* lib/storage.mjs                                                         *)
(***************************************************************************)
\* The offline section of a ticket that has none (`existing?.offline || {}`).
EmptyOffline ==
    [last_read |-> None, last_sync |-> None, previous |-> None,
     pending |-> None, deleted |-> None, changes_since_read |-> None,
     tags |-> None]

\* Variant of issueToStorage that stamps `updated` with the time of the save.
issueToStorageStamped(issue, hostUrl) ==
    [key |-> issue.key, host |-> hostUrl, summary |-> issue.summary,
     status |-> issue.status, updated |-> LocalNow, labels |-> issue.labels]

issueToStorage(issue, hostUrl) ==
    [key |-> issue.key, host |-> hostUrl, summary |-> issue.summary,
     status |-> issue.status, updated |-> issue.updated, labels |-> issue.labels]

\* The changelog entries the loop does not skip.  The changelog is kept as
\* the set of its (created, field) entries: the summary computed from it
\* depends on neither their order nor their multiplicity.
NewerItems(histories, lastRead) ==
    {h \in histories : ~(h.created <= lastRead)}

computeChangesSinceRead(histories, lastRead, prevCommentCount, newCommentCount) ==
    LET comments == IF newCommentCount > prevCommentCount
                    THEN newCommentCount - prevCommentCount ELSE 0
    IN  IF ~IsSome(lastRead) THEN None
        ELSE LET newer == NewerItems(histories, Val(lastRead))
                 title == \E h \in newer : h.field = "summary"
                 namedFields == {h.field : h \in {g \in newer : g.field = "status"}}
                 hasChanges == title \/ namedFields # {} \/ comments > 0
             IN  IF ~hasChanges THEN None
                 ELSE Some([title |-> title, namedFields |-> namedFields,
                            comments |-> comments])

\* Variant of existingOffline that does not read the file it overwrites.
noExistingOffline(st, id) == EmptyOffline

\* readTicket lines 335-351: the file is read when it exists and holds a
\* whole frontmatter block; a partly written file reads as null.
readable(st, id) == id \in DOMAIN st /\ id \notin torn

\* Lines 135-142: the offline section of the file saveIssue is about to
\* overwrite, empty when readTicket returns null.
existingOffline(st, id) ==
    IF readable(st, id) THEN st[id].offline ELSE EmptyOffline

\* The ticket saveIssue writes for `issue`; options.comments and
\* options.changelog are None when the caller passes none.
savedTicket(st, issue, hostUrl, options, now) ==
    LET id == generateId(hostUrl, issue.key)
        exists == readable(st, id)
        existing == existingOffline(st, id)
        existingCommentCount == IF exists THEN Len(st[id].comments) ELSE 0
        data == issueToStorage(issue, hostUrl)
        comments == IF IsSome(options.comments) THEN Val(options.comments) ELSE <<>>
        lastRead == existing.last_read
        off1 == [existing EXCEPT !.last_sync = Some(now)]
        off2 == IF IsSome(options.changelog)
                THEN [off1 EXCEPT !.changes_since_read =
                        computeChangesSinceRead(Val(options.changelog), lastRead,
                                                existingCommentCount, Len(comments))]
                ELSE off1
        off3 == IF ~IsSome(existing.last_read)
                THEN [off2 EXCEPT !.previous = None] ELSE off2
    IN  [key |-> data.key, host |-> data.host, summary |-> data.summary,
         status |-> data.status, updated |-> data.updated, labels |-> data.labels,
         stored_at |-> now, comments |-> comments, offline |-> off3]

saveIssue(st, issue, hostUrl, options, now) ==
    LET id == generateId(hostUrl, issue.key)
    IN  [i \in DOMAIN st \cup {id} |->
            IF i = id THEN savedTicket(st, issue, hostUrl, options, now) ELSE st[i]]

\* Shallow merge of `updates` into the ticket's offline section.
updateOffline(st, id, updates) ==
    LET off == st[id].offline
    IN  [st EXCEPT ![id].offline =
            [f \in DOMAIN off |-> IF f \in DOMAIN updates THEN updates[f] ELSE off[f]]]

markAsRead(st, id, now) ==
    LET ticket == st[id]
        previous == [status |-> ticket.status, summary |-> ticket.summary,
                     commentCount |-> Len(ticket.comments)]
    IN  updateOffline(st, id, [last_read |-> Some(now), previous |-> Some(previous)])

\* Variant of clearLastRead that keeps the snapshot taken at the last read.
clearLastReadOnly(st, id) ==
    updateOffline(st, id, [last_read |-> None])

clearLastRead(st, id) ==
    updateOffline(st, id, [last_read |-> None, previous |-> None])

\* `ticket.offline?.pending || {}`: an object, key -> value.
EmptyPending == [k \in {} |-> None]
pendingOf(ticket) ==
    IF IsSome(ticket.offline.pending) THEN Val(ticket.offline.pending) ELSE EmptyPending
pendingSet(p, k, v) == [x \in DOMAIN p \cup {k} |-> IF x = k THEN v ELSE p[x]]
\* `pending.comments || []`, `pending.links || []`
pendingList(p, k) == IF k \in DOMAIN p THEN p[k] ELSE <<>>

queueEdit(st, id, field, value) ==
    updateOffline(st, id, [pending |-> Some(pendingSet(pendingOf(st[id]), field, value))])

(***************************************************************************)
(* commands/edit.mjs handleLabelEdit                                       *)
(***************************************************************************)
\* The place of the first comma of str, 0 when it has none.
firstComma(str) ==
    IF \E n \in 1..Len(str) : str[n] = ","
    THEN CHOOSE n \in 1..Len(str) : str[n] = "," /\ \A m \in 1..(n - 1) : str[m] # ","
    ELSE 0

\* String.prototype.split(','): the pieces between the commas.
RECURSIVE split(_)
split(str) ==
    IF firstComma(str) = 0 THEN <<str>>
    ELSE <<SubSeq(str, 1, firstComma(str) - 1)>> \o
         split(SubSeq(str, firstComma(str) + 1, Len(str)))

\* String.prototype.trim: the blanks at both ends go.
RECURSIVE trim(_)
trim(str) ==
    IF Len(str) > 0 /\ str[1] = " " THEN trim(Tail(str))
    ELSE IF Len(str) > 0 /\ str[Len(str)] = " " THEN trim(SubSeq(str, 1, Len(str) - 1))
    ELSE str

\* Array.prototype.indexOf, counted from 1: 0 when the label is not there.
indexOf(labels, label) ==
    IF \E n \in 1..Len(labels) : labels[n] = label
    THEN CHOOSE n \in 1..Len(labels) :
            labels[n] = label /\ \A m \in 1..(n - 1) : labels[m] # label
    ELSE 0

\* Line 84: `pending.labels || [...(ticket.labels || [])]`; an empty array
\* is truthy.
currentLabelsOf(ticket) ==
    IF "labels" \in DOMAIN pendingOf(ticket) THEN pendingOf(ticket)["labels"]
    ELSE ticket.labels

\* Variant of editedLabels that starts from the pending labels joined with
\* the record's labels.
editedLabelsOfUnion(ticket, value) ==
    LET pendingLabels == pendingList(pendingOf(ticket), "labels")
        more == {n \in 1..Len(ticket.labels) : ticket.labels[n] \notin SeqToSet(pendingLabels)}
        currentLabels == pendingLabels \o
            [n \in 1..Cardinality(more) |->
                ticket.labels[CHOOSE m \in more : Cardinality({k \in more : k < m}) = n - 1]]
    IN  IF Len(value) > 0 /\ value[1] = "+"
        THEN IF Tail(value) \in SeqToSet(currentLabels) THEN currentLabels
             ELSE Append(currentLabels, Tail(value))
        ELSE IF Len(value) > 0 /\ value[1] = "-"
        THEN LET idx == indexOf(currentLabels, Tail(value))
             IN  IF idx > 0
                 THEN SubSeq(currentLabels, 1, idx - 1) \o
                      SubSeq(currentLabels, idx + 1, Len(currentLabels))
                 ELSE currentLabels
        ELSE [n \in 1..Len(split(value)) |-> trim(split(value)[n])]

\* Variant of editedLabels that adds a label without looking for it first.
editedLabelsAlwaysPush(ticket, value) ==
    LET currentLabels == currentLabelsOf(ticket)
    IN  IF Len(value) > 0 /\ value[1] = "+"
        THEN Append(currentLabels, Tail(value))
        ELSE IF Len(value) > 0 /\ value[1] = "-"
        THEN LET idx == indexOf(currentLabels, Tail(value))
             IN  IF idx > 0
                 THEN SubSeq(currentLabels, 1, idx - 1) \o
                      SubSeq(currentLabels, idx + 1, Len(currentLabels))
                 ELSE currentLabels
        ELSE [n \in 1..Len(split(value)) |-> trim(split(value)[n])]

\* Lines 86-101: the label list the edit leaves.
editedLabels(ticket, value) ==
    LET currentLabels == currentLabelsOf(ticket)
    IN  IF Len(value) > 0 /\ value[1] = "+"
        THEN IF Tail(value) \in SeqToSet(currentLabels) THEN currentLabels
             ELSE Append(currentLabels, Tail(value))
        ELSE IF Len(value) > 0 /\ value[1] = "-"
        THEN LET idx == indexOf(currentLabels, Tail(value))
             IN  IF idx > 0
                 THEN SubSeq(currentLabels, 1, idx - 1) \o
                      SubSeq(currentLabels, idx + 1, Len(currentLabels))
                 ELSE currentLabels
        ELSE [n \in 1..Len(split(value)) |-> trim(split(value)[n])]

handleLabelEdit(st, id, ticket, value) ==
    queueEdit(st, id, "labels", editedLabels(ticket, value))

queueComment(st, id, text, now) ==
    LET pending == pendingOf(st[id])
        comments == Append(pendingList(pending, "comments"),
                           [text |-> text, queued_at |-> now])
    IN  updateOffline(st, id, [pending |-> Some(pendingSet(pending, "comments", comments))])

queueLink(st, id, linkData, now) ==
    LET pending == pendingOf(st[id])
        links == Append(pendingList(pending, "links"),
                        [action |-> linkData.action, type |-> linkData.type,
                         inwardKey |-> linkData.inwardKey,
                         outwardKey |-> linkData.outwardKey, queued_at |-> now])
    IN  updateOffline(st, id, [pending |-> Some(pendingSet(pending, "links", links))])

\* Variant of clearPending that leaves the queue as it is.
keepPending(st, id) == st

clearPending(st, id) == updateOffline(st, id, [pending |-> None])

\* apply.mjs / plan.mjs: does the ticket have anything to push?
hasPendingChanges(ticket) ==
    \/ IsSome(ticket.offline.deleted)
    \/ /\ IsSome(ticket.offline.pending)
       /\ LET pending == Val(ticket.offline.pending)
          IN  \/ DOMAIN pending \ {"comments", "links"} # {}
              \/ Len(pendingList(pending, "comments")) > 0
              \/ Len(pendingList(pending, "links")) > 0

(***************************************************************************)
(* lib/id.mjs resolveId.  A stored id is a SHA1 digest in hex and a file's  *)
(* name is the id followed by ".md"; names and inputs are sequences of      *)
(* characters, since the resolver takes them apart.                         *)
(***************************************************************************)
\* The length of a digest in the model.
IdLen == 10
\* Line 92: substring(0, 8), the part of an id the Ambiguous error shows.
ShownLen == 8

\* Four digests: IdA and IdB differ in their last character only, IdC
\* shares one character with them, IdD none.
IdA == [n \in 1..IdLen |-> "a"]
IdB == [n \in 1..IdLen |-> IF n = IdLen THEN "b" ELSE "a"]
IdC == [n \in 1..IdLen |-> IF n = 1 THEN "a" ELSE "b"]
IdD == [n \in 1..IdLen |-> "b"]
Digests == {IdA, IdB, IdC, IdD}
\* The digest of the issue A-1 of the second host.
IdE == [n \in 1..IdLen |-> IF n = 2 THEN "b" ELSE "a"]

DotMd == <<".", "m", "d">>
\* The files a storage directory may hold: ticket files, and a file whose
\* name starts with an underscore.
FileNames == {d \o DotMd : d \in Digests} \cup {<<"_", "a">> \o DotMd}

\* The files of a directory in the order readdirSync lists them, by name.
dirOrder ==
    <<IdA \o DotMd, IdB \o DotMd, IdE \o DotMd, IdC \o DotMd, IdD \o DotMd,
      <<"_", "a">> \o DotMd>>
placeOf(file) == CHOOSE n \in 1..Len(dirOrder) : dirOrder[n] = file

\* The host in the frontmatter of a ticket file.
frontmatterHost(file) == IF file = IdE \o DotMd THEN OtherHostUrl ELSE HostUrl

\* The frontmatter of a ticket file (readFrontmatter, lines 109-120).
frontmatterKey(file) ==
    CASE file = IdA \o DotMd -> <<"A", "-", "1">>
      [] file = IdE \o DotMd -> <<"A", "-", "1">>
      [] file = IdB \o DotMd -> <<"A", "-", "2">>
      [] file = IdC \o DotMd -> <<"B", "-", "1">>
      [] OTHER -> <<"B", "-", "2">>

lowerChar(c) == CASE c = "A" -> "a" [] c = "B" -> "b" [] OTHER -> c
upperChar(c) == CASE c = "a" -> "A" [] c = "b" -> "B" [] c = "m" -> "M"
                  [] c = "d" -> "D" [] OTHER -> c
\* String.prototype.toLowerCase / toUpperCase, character by character.
lowerCase(str) == [n \in 1..Len(str) |-> lowerChar(str[n])]
upperCase(str) == [n \in 1..Len(str) |-> upperChar(str[n])]

startsWith(str, prefix) ==
    Len(prefix) <= Len(str) /\ SubSeq(str, 1, Len(prefix)) = prefix
endsWith(str, suffix) ==
    /\ Len(suffix) <= Len(str)
    /\ SubSeq(str, Len(str) - Len(suffix) + 1, Len(str)) = suffix

\* replace(/\.md$/, ''): a trailing ".md" goes.
stripMd(str) ==
    IF endsWith(str, DotMd) THEN SubSeq(str, 1, Len(str) - Len(DotMd)) ELSE str

\* substring(0, n)
substring(str, n) == SubSeq(str, 1, IF n < Len(str) THEN n ELSE Len(str))

isLetter(c) == lowerChar(c) \in {"a", "b", "m", "d"}
isDigit(c) == c \in {"1", "2"}
\* Line 46: /^[A-Z]+-\d+$/i
isJiraKey(str) ==
    \E dash \in 2..(Len(str) - 1) :
        /\ str[dash] = "-"
        /\ \A n \in 1..(dash - 1) : isLetter(str[n])
        /\ \A n \in (dash + 1)..Len(str) : isDigit(str[n])

\* Lines 38-39: the ticket files of the storage directory.
ticketFiles(dir) == {f \in dir : endsWith(f, DotMd) /\ ~startsWith(f, <<"_">>)}

\* Lines 59-76: the loop returns at the first file whose key matches.
resolveByKey(key, files) ==
    LET hits == {f \in files : upperCase(frontmatterKey(f)) = key}
    IN  IF hits # {}
        THEN LET file == CHOOSE f \in hits : \A g \in hits : placeOf(f) <= placeOf(g)
             IN  [ok |-> TRUE, id |-> stripMd(file), key |-> frontmatterKey(file),
                  host |-> frontmatterHost(file)]
        ELSE [ok |-> FALSE, error |-> "NotFound"]

\* Lines 81-104.  `ids` is what the Ambiguous error lists for each matching
\* file, in the order of the directory.
resolveByIdPrefix(prefix, files) ==
    LET matches == {f \in files : startsWith(lowerCase(f), prefix)}
    IN  IF matches = {} THEN [ok |-> FALSE, error |-> "NotFound"]
        ELSE IF Cardinality(matches) > 1
        THEN [ok |-> FALSE, error |-> "Ambiguous",
              ids |-> [f \in matches |-> substring(stripMd(f), ShownLen)]]
        ELSE LET file == CHOOSE f \in matches : TRUE
             IN  [ok |-> TRUE, id |-> stripMd(file),
                  key |-> frontmatterKey(file), host |-> HostUrl]

\* Lines 31-54.
resolveId(input, dir) ==
    LET cleanInput == trim(stripMd(input))
        files == ticketFiles(dir)
    IN  IF isJiraKey(cleanInput)
        THEN resolveByKey(upperCase(cleanInput), files)
        ELSE resolveByIdPrefix(lowerCase(cleanInput), files)

(***************************************************************************)
(* The remote Jira (lib/api.mjs is its client).                            *)
(***************************************************************************)
\* GET /issue/<key>: the issue object the API returns.
issueOf(key) ==
    [key |-> key, summary |-> remote[key].summary, status |-> remote[key].status,
     updated |-> remote[key].updated, labels |-> remote[key].labels]

\* Every change at the remote stamps `updated`; field changes are logged in
\* the changelog, comments are not.
touched(r, field) ==
    [r EXCEPT !.updated = RemoteNow,
              !.histories = @ \cup {[created |-> RemoteNow, field |-> field]}]

\* The transitions GET /issue/<key>/transitions offers in a state, in the
\* order of the response: each has its own name and a target state.
Transitions(status) ==
    IF status = "Open"
    THEN <<[name |-> "Close", to |-> "Done"]>>
    ELSE <<[name |-> "Reopen", to |-> "Open"]>>

\* The states the issue can go to.
TransitionTargets(status) ==
    {Transitions(status)[n].to : n \in 1..Len(Transitions(status))}

\* A new issue, as Jira creates it.
newIssue(now) ==
    [exists |-> TRUE, gone |-> FALSE, summary |-> "s0", status |-> "Open",
     updated |-> now, labels |-> <<>>, comments |-> <<>>, histories |-> {}]

\* An issue key nobody has used yet.
noIssue ==
    [exists |-> FALSE, gone |-> FALSE, summary |-> "s0", status |-> "Open",
     updated |-> 0, labels |-> <<>>, comments |-> <<>>, histories |-> {}]

\* No library call is under way.
noCall == [fn |-> "none"]

\* Nothing is running.
idleCommand == [pc |-> "idle"]

\* A fresh installation: nothing stored, no ledger; each issue of the
\* project exists already or does not exist yet.
Init ==
    /\ time = 0
    /\ skew \in (0 - MaxSkew)..MaxSkew
    /\ remote \in [Keys -> {noIssue, newIssue(0)}]
    /\ rlinks = {}
    /\ redits = 0
    /\ store = [i \in {} |-> None]
    /\ syncState = [p \in {} |-> None]
    /\ pull = idleCommand
    /\ apply = idleCommand
    /\ runs = 0
    /\ queued = 0
    /\ torn = {}
    /\ said = [label |-> "", text |-> ""]
    /\ exitStatus = 0
    /\ lib = noCall

\* No command is running: the CLI runs one command at a time.
Idle == pull.pc = "idle" /\ apply.pc = "idle"

Tick ==
    /\ time < MaxTime
    /\ time' = time + 1
    /\ UNCHANGED <<lib, exitStatus, said, torn, runs, queued, skew, remote, rlinks, redits, store, syncState, pull, apply>>

(***************************************************************************)
(* Other users change the remote.                                          *)
(***************************************************************************)
RemoteEdit(k) ==
    /\ redits < MaxRemoteEdits
    /\ \/ /\ ~remote[k].exists /\ ~remote[k].gone
          /\ remote' = [remote EXCEPT ![k] = newIssue(RemoteNow)]
       \/ /\ remote[k].exists
          /\ \E v \in Summaries \ {remote[k].summary} :
                remote' = [remote EXCEPT ![k] = touched([@ EXCEPT !.summary = v], "summary")]
       \/ /\ remote[k].exists
          /\ \E v \in TransitionTargets(remote[k].status) :
                remote' = [remote EXCEPT ![k] = touched([@ EXCEPT !.status = v], "status")]
       \/ /\ remote[k].exists
          /\ Len(remote[k].comments) < MaxRemoteComments
          /\ remote' = [remote EXCEPT ![k].comments = Append(@, "x"),
                                      ![k].updated = RemoteNow]
    /\ redits' = redits + 1
    /\ UNCHANGED <<lib, exitStatus, said, torn, runs, queued, time, skew, rlinks, store, syncState, pull, apply>>

\* Another user gives the issue a new list of labels.
RemoteLabel(k, labels) ==
    /\ redits < MaxRemoteEdits
    /\ remote[k].exists
    /\ remote[k].labels # labels
    /\ remote' = [remote EXCEPT ![k] = touched([@ EXCEPT !.labels = labels], "labels")]
    /\ redits' = redits + 1
    /\ UNCHANGED <<lib, exitStatus, said, torn, runs, queued, time, skew, rlinks, store, syncState, pull, apply>>

(***************************************************************************)
(* The change queue: jira edit / comment / link / delete / mark.           *)
(***************************************************************************)
\* commands/edit.mjs runEdit, for a field other than labels
Edit(id, field, value) ==
    /\ Idle
    /\ queued < MaxQueued
    /\ queued' = queued + 1
    /\ readable(store, id)
    /\ store' = queueEdit(store, id, field, value)
    /\ exitStatus' = 0
    /\ UNCHANGED <<lib, said, torn, runs, time, skew, remote, rlinks, redits, syncState, pull, apply>>

\* commands/edit.mjs runEdit, for the field labels
LabelEdit(id, value) ==
    /\ Idle
    /\ queued < MaxQueued
    /\ queued' = queued + 1
    /\ readable(store, id)
    /\ store' = handleLabelEdit(store, id, store[id], value)
    /\ exitStatus' = 0
    /\ UNCHANGED <<lib, said, torn, runs, time, skew, remote, rlinks, redits, syncState, pull, apply>>

\* commands/comment.mjs runComment
Comment(id, text) ==
    /\ Idle
    /\ queued < MaxQueued
    /\ queued' = queued + 1
    /\ readable(store, id)
    /\ Len(pendingList(pendingOf(store[id]), "comments")) < MaxComments
    \* a text names one queued comment: it is neither queued nor posted yet
    /\ \A c \in SeqToSet(pendingList(pendingOf(store[id]), "comments")) : c.text # text
    /\ text \notin SeqToSet(remote[store[id].key].comments)
    /\ store' = queueComment(store, id, text, LocalNow)
    /\ exitStatus' = 0
    /\ UNCHANGED <<lib, said, torn, runs, time, skew, remote, rlinks, redits, syncState, pull, apply>>

\* Variant of Link that queues the link whatever the hosts of the tickets.
LinkAcrossHosts(id1, id2, isRemove) ==
    /\ Idle
    /\ queued < MaxQueued
    /\ queued' = queued + 1
    /\ readable(store, id1) /\ readable(store, id2)
    /\ id1 # id2
    /\ Len(pendingList(pendingOf(store[id1]), "links")) < MaxLinks
    /\ store' = queueLink(store, id1,
                          [action |-> IF isRemove THEN "remove" ELSE "add",
                           type |-> LinkType,
                           inwardKey |-> store[id1].key,
                           outwardKey |-> store[id2].key], LocalNow)
    /\ exitStatus' = 0
    /\ UNCHANGED <<lib, said, torn, runs, time, skew, remote, rlinks, redits, syncState, pull, apply>>

\* commands/link.mjs runLink lines 74-112: tickets of different hosts are
\* refused with 'Cannot link tickets from different Jira hosts' and exit
\* status 1; otherwise the link is queued on the first ticket.
Link(id1, id2, isRemove) ==
    /\ Idle
    /\ queued < MaxQueued
    /\ queued' = queued + 1
    /\ readable(store, id1) /\ readable(store, id2)
    /\ id1 # id2
    /\ Len(pendingList(pendingOf(store[id1]), "links")) < MaxLinks
    /\ IF store[id1].host # store[id2].host
       THEN /\ store' = store
            /\ exitStatus' = 1
       ELSE /\ store' = queueLink(store, id1,
                                  [action |-> IF isRemove THEN "remove" ELSE "add",
                                   type |-> LinkType,
                                   inwardKey |-> store[id1].key,
                                   outwardKey |-> store[id2].key], LocalNow)
            /\ exitStatus' = 0
    /\ UNCHANGED <<lib, said, torn, runs, time, skew, remote, rlinks, redits, syncState, pull, apply>>

\* Variant of Delete that stamps the marker again on a marked ticket.
DeleteRestamp(id, clear) ==
    /\ Idle
    /\ queued < MaxQueued
    /\ queued' = queued + 1
    /\ readable(store, id)
    /\ IF clear
       THEN IF ~IsSome(store[id].offline.deleted)
            THEN /\ store' = store
                 /\ said' = [label |-> store[id].key, text |-> "Not marked for deletion"]
            ELSE /\ store' = updateOffline(store, id, [deleted |-> None])
                 /\ said' = [label |-> store[id].key, text |-> "Cleared deletion"]
       ELSE /\ store' = updateOffline(store, id, [deleted |-> Some(LocalNow)])
            /\ said' = [label |-> store[id].key,
                        text |-> IF IsSome(store[id].offline.deleted)
                                 THEN "Already marked for deletion"
                                 ELSE "Marked for deletion"]
    /\ exitStatus' = 0
    /\ UNCHANGED <<lib, torn, runs, time, skew, remote, rlinks, redits, syncState, pull, apply>>

\* commands/comment.mjs runDelete, for one id: lines 106-131.
Delete(id, clear) ==
    /\ Idle
    /\ queued < MaxQueued
    /\ queued' = queued + 1
    /\ readable(store, id)
    /\ IF clear
       THEN IF ~IsSome(store[id].offline.deleted)
            THEN /\ store' = store
                 /\ said' = [label |-> store[id].key, text |-> "Not marked for deletion"]
            ELSE /\ store' = updateOffline(store, id, [deleted |-> None])
                 /\ said' = [label |-> store[id].key, text |-> "Cleared deletion"]
       ELSE IF IsSome(store[id].offline.deleted)
            THEN /\ store' = store
                 /\ said' = [label |-> store[id].key, text |-> "Already marked for deletion"]
            ELSE /\ store' = updateOffline(store, id, [deleted |-> Some(LocalNow)])
                 /\ said' = [label |-> store[id].key, text |-> "Marked for deletion"]
    /\ exitStatus' = 0
    /\ UNCHANGED <<lib, torn, runs, time, skew, remote, rlinks, redits, syncState, pull, apply>>

\* commands/mark.mjs runMark
Mark(id, clear) ==
    /\ Idle
    /\ queued < MaxQueued
    /\ queued' = queued + 1
    /\ readable(store, id)
    /\ store' = IF clear THEN clearLastRead(store, id) ELSE markAsRead(store, id, LocalNow)
    /\ exitStatus' = 0
    /\ UNCHANGED <<lib, said, torn, runs, time, skew, remote, rlinks, redits, syncState, pull, apply>>

\* The user adds local-only tags to the ticket file's offline section.
EditTags(id) ==
    /\ Idle
    /\ readable(store, id)
    /\ ~IsSome(store[id].offline.tags)
    /\ store' = [store EXCEPT ![id].offline.tags = Some(<<"blocked">>)]
    /\ UNCHANGED <<lib, exitStatus, said, torn, runs, queued, time, skew, remote, rlinks, redits, syncState, pull, apply>>

(***************************************************************************)
(* commands/clean.mjs                                                      *)
(***************************************************************************)
\* `{ hosts: {} }`: the ledger without a cursor.
EmptyLedger == [p \in {} |-> None]

\* Variant of Clean that removes the ticket files and leaves the ledger.
CleanFilesOnly ==
    /\ Idle
    /\ queued < MaxQueued
    /\ queued' = queued + 1
    /\ store' = [i \in {} |-> None]
    /\ torn' = {}
    /\ said' = [label |-> "clean", text |-> "Cleaned"]
    /\ exitStatus' = 0
    /\ UNCHANGED <<lib, runs, time, skew, remote, rlinks, redits, syncState, pull, apply>>

\* runClean: the ledger is reset (lines 58-64), then every ticket file is
\* removed (lines 72-80).
Clean ==
    /\ Idle
    /\ queued < MaxQueued
    /\ queued' = queued + 1
    /\ syncState' = EmptyLedger
    /\ store' = [i \in {} |-> None]
    /\ torn' = {}
    /\ said' = [label |-> "clean",
                text |-> IF DOMAIN store = {} THEN "No ticket files to clean" ELSE "Cleaned"]
    /\ exitStatus' = 0
    /\ UNCHANGED <<lib, runs, time, skew, remote, rlinks, redits, pull, apply>>

(***************************************************************************)
(* commands/pull.mjs                                                       *)
(***************************************************************************)
\* The cache keys of the two configured patterns, which differ (cacheKey
\* computes the key of a pattern from its text).
patternKey(pattern) == IF pattern = "p1" THEN "k1" ELSE "k2"

\* pattern.limit, 0 when the pattern has none.
patternLimit(pattern) == IF pattern = "p2" THEN 1 ELSE 0

\* A timestamp, as the incremental filter gives it: cut to the minute
\* (`toISOString().slice(0, 16)`).
TicksPerMinute == 2
formattedDate(t) == t - (t % TicksPerMinute)

\* A JQL expression is the sequence of its words, the pieces that white
\* space separates.  QOpen is a word that opens a string literal, QClose one
\* that closes it.
QOpen == "\"a"
QClose == "b\""
lowerWord(w) == CASE w = "ORDER" -> "order" [] w = "BY" -> "by" [] OTHER -> w

\* Line 293: baseJql.match(/\s+(ORDER\s+BY\s+[\s\S]+)$/i).  The leftmost
\* match: the first ORDER that has white space before it, is followed by BY
\* and by something more.  0 stands for no match.
orderByMatch(baseJql) ==
    LET at(m) == /\ lowerWord(baseJql[m]) = "order"
                 /\ lowerWord(baseJql[m + 1]) = "by"
        M == {m \in 2..(Len(baseJql) - 2) : at(m)}
    IN  IF M = {} THEN 0 ELSE CHOOSE m \in M : \A n \in M : m <= n

\* Lines 283-306: the query sent for a pattern whose base filter is baseJql.
incrementalJql(baseJql, lastSync, forceFull) ==
    IF ~forceFull /\ IsSome(lastSync)
    THEN LET m == orderByMatch(baseJql)
             orderByClause == IF m # 0 THEN SubSeq(baseJql, m, Len(baseJql)) ELSE <<>>
             jqlWithoutOrder == IF m # 0 THEN SubSeq(baseJql, 1, m - 1) ELSE baseJql
         IN  <<"(">> \o jqlWithoutOrder \o
             <<")", "AND", "updated", ">=", ToString(formattedDate(Val(lastSync)))>> \o
             orderByClause
    ELSE baseJql

\* Lines 362-374, buildJql: the parts a pattern gives, joined by AND; None
\* stands for null, the answer for a pattern that gives no part.  A part a
\* pattern does not give is None.
buildJql(pattern) ==
    LET parts == (IF IsSome(pattern.project)
                  THEN <<<<"project", "=", Val(pattern.project)>>>> ELSE <<>>) \o
                 (IF IsSome(pattern.jql) THEN <<Val(pattern.jql)>> ELSE <<>>)
    IN  IF Len(parts) = 0 THEN None
        ELSE IF Len(parts) = 1 THEN Some(parts[1])
        ELSE Some(parts[1] \o <<"AND">> \o parts[2])

\* Line 273: `pattern.jql || buildJql(pattern)`.
baseJqlOf(pattern) ==
    IF IsSome(pattern.jql) THEN pattern.jql ELSE buildJql(pattern)

\* `syncState.hosts[hostName].patterns[pKey]`
cursorOf(state, pKey) == IF pKey \in DOMAIN state THEN state[pKey] ELSE None

\* The issues the remote finds for the query built from `pattern`: every
\* existing issue the base filter matches, updated at or after the cursor
\* when the query is incremental.
Matching(pattern, lastSync, forceFull) ==
    {k \in Keys :
        /\ remote[k].exists
        /\ (~forceFull /\ IsSome(lastSync))
              => remote[k].updated >= formattedDate(Val(lastSync).t)}

\* The orders in which the remote may return a set of issues.
Orders(S) ==
    {q \in [1..Cardinality(S) -> S] : \A i, j \in 1..Cardinality(S) : q[i] = q[j] => i = j}

\* searchAll: the page results, cut to `limit` when there is one.
searchResults(pattern, lastSync, forceFull) ==
    LET limit == patternLimit(pattern)
    IN  {IF limit > 0 /\ Len(q) > limit THEN SubSeq(q, 1, limit) ELSE q :
            q \in Orders(Matching(pattern, lastSync, forceFull))}

\* Variant of maxUpdatedOf without the comparison: the last issue wins.
lastUpdatedOf(issues, n) == IF n = 0 THEN None ELSE Some(issues[n].updated)

\* The greatest `updated` among the first n issues (lines 314-321).
RECURSIVE maxUpdatedOf(_, _)
maxUpdatedOf(issues, n) ==
    IF n = 0 THEN None
    ELSE LET m == maxUpdatedOf(issues, n - 1)
             u == issues[n].updated
         IN  IF ~IsSome(m) \/ u > Val(m) THEN Some(u) ELSE m

\* Variant of syncTimestamp that always takes the pull's start time.
syncTimestampLocal(maxUpdated, pullStartTime) == LocalStamp(pullStartTime)

\* Lines 347-350: the cursor a processed pattern gets.
syncTimestamp(maxUpdated, pullStartTime) ==
    IF IsSome(maxUpdated) THEN RemoteStamp(Val(maxUpdated)) ELSE LocalStamp(pullStartTime)

\* Variant of Enrichments in which one failed fetch drops both results.
EnrichmentsAllOrNothing(key) ==
    {[comments |-> Some(IF cOk /\ hOk THEN remote[key].comments ELSE <<>>),
      changelog |-> Some(IF cOk /\ hOk THEN remote[key].histories ELSE {}),
      warnings |-> (IF cOk THEN {} ELSE {"comments"}) \cup
                   (IF hOk THEN {} ELSE {"changelog"})] :
        cOk \in {FALSE} \cup (IF remote[key].exists THEN {TRUE} ELSE {}),
        hOk \in {FALSE} \cup (IF remote[key].exists THEN {TRUE} ELSE {})}

\* The enrichment of one issue: comments and changelog, each fetched or,
\* when its fetch fails, left at its default.
\* `warnings` names the fetches that failed and were logged as warnings;
\* the pull keeps those of its last step in `warned`.
Enrichments(key) ==
    {[comments |-> Some(IF cOk THEN remote[key].comments ELSE <<>>),
      changelog |-> Some(IF hOk THEN remote[key].histories ELSE {}),
      warnings |-> (IF cOk THEN {} ELSE {"comments"}) \cup
                   (IF hOk THEN {} ELSE {"changelog"})] :
        cOk \in {FALSE} \cup (IF remote[key].exists THEN {TRUE} ELSE {}),
        hOk \in {FALSE} \cup (IF remote[key].exists THEN {TRUE} ELSE {})}

\* runPull without positionals: pullFromHost starts (lines 248-270).
PullStart(forceFull) ==
    /\ Idle
    /\ runs < MaxRuns
    /\ runs' = runs + 1
    /\ pull' = [pc |-> "pattern", full |-> forceFull, pi |-> 1, prev |-> "none",
                issues |-> <<>>, i |-> 1, start |-> LocalNow, mem |-> syncState,
                found |-> 0, failed |-> 0, out |-> <<>>, warned |-> {}]
    /\ UNCHANGED <<lib, exitStatus, said, torn, queued, time, skew, remote, rlinks, redits, store, syncState, apply>>

\* Lines 272-311: the query of the next pattern is built and searched, or
\* the search throws and the pattern is skipped (line 351).
PullSearch ==
    /\ pull.pc = "pattern"
    /\ pull.pi <= Len(SyncPatterns)
    /\ LET pattern == SyncPatterns[pull.pi]
           lastSync == cursorOf(pull.mem, patternKey(pattern))
       IN  \/ \E issues \in searchResults(pattern, lastSync, pull.full) :
                pull' = [pull EXCEPT !.pc = "items",
                                     !.issues = [n \in 1..Len(issues) |-> issueOf(issues[n])],
                                     !.i = 1,
                                     !.found = @ + Len(issues),
                                     !.warned = {}]
           \/ pull' = [pull EXCEPT !.pi = @ + 1, !.prev = "error", !.warned = {}]
    /\ UNCHANGED <<lib, exitStatus, said, torn, runs, queued, time, skew, remote, rlinks, redits, store, syncState, apply>>

\* Lines 316-345: one fetched issue is enriched and saved; when saveIssue
\* throws, the catch of line 351 ends the pattern.
PullItem ==
    /\ pull.pc = "items"
    /\ pull.i <= Len(pull.issues)
    /\ LET issue == pull.issues[pull.i]
       IN  \/ \E options \in Enrichments(issue.key) :
                /\ store' = saveIssue(store, issue, HostUrl, options, LocalNow)
                /\ torn' = torn \ {generateId(HostUrl, issue.key)}
                /\ pull' = [pull EXCEPT !.i = @ + 1, !.out = Append(@, issue.key),
                                        !.warned = options.warnings]
           \/ /\ pull' = [pull EXCEPT !.pc = "pattern", !.pi = @ + 1,
                                      !.prev = "error", !.failed = @ + 1,
                                      !.warned = {}]
              /\ store' = store
              /\ torn' = torn
    /\ UNCHANGED <<lib, exitStatus, said, runs, queued, time, skew, remote, rlinks, redits, syncState, apply>>

\* Lines 347-350: the pattern's cursor is set in the loaded sync state.
PullAdvance ==
    /\ pull.pc = "items"
    /\ pull.i > Len(pull.issues)
    /\ LET pKey == patternKey(SyncPatterns[pull.pi])
           stamp == syncTimestamp(maxUpdatedOf(pull.issues, Len(pull.issues)), pull.start)
       IN  pull' = [pull EXCEPT !.pc = "pattern", !.pi = @ + 1, !.prev = "advanced",
                                !.warned = {},
                                !.mem = [k \in DOMAIN @ \cup {pKey} |->
                                            IF k = pKey THEN Some(stamp) ELSE @[k]]]
    /\ UNCHANGED <<lib, exitStatus, said, torn, runs, queued, time, skew, remote, rlinks, redits, store, syncState, apply>>

\* Lines 356-359: saveSyncState writes the ledger; the pull is over.
PullFinish ==
    /\ pull.pc = "pattern"
    /\ pull.pi > Len(SyncPatterns)
    /\ syncState' = pull.mem
    /\ pull' = [pull EXCEPT !.pc = "done", !.warned = {}]
    /\ UNCHANGED <<lib, exitStatus, said, torn, runs, queued, time, skew, remote, rlinks, redits, store, apply>>

\* The inputs of `jira pull <id...>`: one or two Jira keys.
IdLists == {<<k>> : k \in Keys} \cup {q \in [1..2 -> Keys] : q[1] # q[2]}

\* runPull with positionals: pullSpecificTickets starts (lines 136-140).
PullIdsStart(ids) ==
    /\ Idle
    /\ runs < MaxRuns
    /\ runs' = runs + 1
    /\ pull' = [pc |-> "byid", ids |-> ids, i |-> 1, found |-> Len(ids),
                failed |-> 0, out |-> <<>>, warned |-> {}]
    /\ UNCHANGED <<lib, exitStatus, said, torn, queued, time, skew, remote, rlinks, redits, store, syncState, apply>>

\* Lines 142-151 and pullSingleTicket: one ticket is fetched, enriched and
\* saved, or its error is caught and reported.
PullSingle ==
    /\ pull.pc = "byid"
    /\ pull.i <= Len(pull.ids)
    /\ LET key == pull.ids[pull.i]
       IN  \/ /\ remote[key].exists
              /\ \E options \in Enrichments(key) :
                    /\ store' = saveIssue(store, issueOf(key), HostUrl, options, LocalNow)
                    /\ torn' = torn \ {generateId(HostUrl, key)}
                    /\ pull' = [pull EXCEPT !.i = @ + 1, !.out = Append(@, key),
                                            !.warned = options.warnings]
           \/ /\ pull' = [pull EXCEPT !.i = @ + 1, !.failed = @ + 1, !.warned = {}]
              /\ store' = store
              /\ torn' = torn
    /\ UNCHANGED <<lib, exitStatus, said, runs, queued, time, skew, remote, rlinks, redits, syncState, apply>>

\* Line 153 / runPull line 108: the count is reported.
PullIdsFinish ==
    /\ pull.pc = "byid"
    /\ pull.i > Len(pull.ids)
    /\ pull' = [pull EXCEPT !.pc = "done", !.warned = {}]
    /\ UNCHANGED <<lib, exitStatus, said, torn, runs, queued, time, skew, remote, rlinks, redits, store, syncState, apply>>

\* The command has printed its total and exits.
PullExit ==
    /\ pull.pc = "done"
    /\ pull' = idleCommand
    /\ exitStatus' = 0
    /\ UNCHANGED <<lib, said, torn, runs, queued, time, skew, remote, rlinks, redits, store, syncState, apply>>

(***************************************************************************)
(* commands/apply.mjs                                                      *)
(***************************************************************************)
\* The pending keys the field loop pushes as one batched field update.
fieldUpdates(pending) == DOMAIN pending \ {"comments", "links", "status"}

\* Lines 124-136: the object updateIssue is called with, field -> value.
sentFields(pending) == [f \in fieldUpdates(pending) |-> pending[f]]

\* What line 137 prints of the update: here the new summary, or the name of
\* the labels field when the update carries no summary.
updateShown(pending) ==
    IF "summary" \in DOMAIN pending THEN pending["summary"] ELSE "labels"

\* Variant of nextStage that passes over the queued comments.
nextStageNoComments(pending, from) ==
    IF from <= 1 /\ "status" \in DOMAIN pending THEN "status"
    ELSE IF from <= 2 /\ DOMAIN pending \ {"comments", "links", "status"} # {} THEN "update"
    ELSE IF from <= 4 /\ Len(pendingList(pending, "links")) > 0 THEN "links"
    ELSE "final"

\* The next step of applyTicketChanges that has work, from step `from` on:
\* 1 status transition, 2 field update, 3 comments, 4 links, 5 finalization.
nextStage(pending, from) ==
    IF from <= 1 /\ "status" \in DOMAIN pending THEN "status"
    ELSE IF from <= 2 /\ fieldUpdates(pending) # {} THEN "update"
    ELSE IF from <= 3 /\ Len(pendingList(pending, "comments")) > 0 THEN "comments"
    ELSE IF from <= 4 /\ Len(pendingList(pending, "links")) > 0 THEN "links"
    ELSE "final"

\* Variant of failTicket in which the error ends the loop over the tickets.
failRun(a) ==
    [a EXCEPT !.pc = "ticket", !.qi = Len(a.queue) + 1,
              !.out = Append(@, [id |-> a.queue[a.qi], res |-> "err"])]

\* runApply line 75: the error of the current ticket is caught and counted,
\* and the loop goes on with the next ticket.
failTicket(a) ==
    [a EXCEPT !.pc = "ticket", !.qi = @ + 1,
              !.out = Append(@, [id |-> a.queue[a.qi], res |-> "err"])]

\* runApply line 74: the current ticket is done.
passTicket(a) ==
    [a EXCEPT !.pc = "ticket", !.qi = @ + 1,
              !.out = Append(@, [id |-> a.queue[a.qi], res |-> "ok"])]

\* The links of the remote that join two issues with a given type, in
\* either direction (removeLinkBetweenIssues, lines 239-252).
matchingLinks(inwardKey, outwardKey, linkType) ==
    {l \in rlinks :
        /\ l.type = linkType
        /\ \/ l.inwardKey = inwardKey /\ l.outwardKey = outwardKey
           \/ l.inwardKey = outwardKey /\ l.outwardKey = inwardKey}

\* Variant of unlinked that leaves the file in place.
notUnlinked(st, id) == st

\* Line 95: unlinkSync removes the ticket's file.
unlinked(st, id) == [i \in DOMAIN st \ {id} |-> st[i]]

\* Lines 109-111: the remote issue was modified after the record's last sync.
diverged(ticket) ==
    /\ IsSome(ticket.offline.last_sync)
    /\ remote[ticket.key].updated > Val(ticket.offline.last_sync)

\* Lines 105-121: what the fetch of the remote state before the mutations
\* prints: nothing, the divergence warning, or that the fetch failed.
remoteChecks(ticket) ==
    {"unfetched"} \cup
    (IF remote[ticket.key].exists
     THEN {IF diverged(ticket) THEN "diverged" ELSE "none"} ELSE {})

\* Variant of afterRemoteCheck in which a diverged remote fails the ticket.
afterStrictRemoteCheck(a, ticket, warn) ==
    IF warn = "diverged"
    THEN failTicket([a EXCEPT !.warn = warn])
    ELSE [a EXCEPT !.warn = warn, !.pc = nextStage(pendingOf(ticket), 1)]

\* Lines 112-120: both the warning and the failed fetch are printed and the
\* apply goes on with the field loop.
afterRemoteCheck(a, ticket, warn) ==
    [a EXCEPT !.warn = warn, !.pc = nextStage(pendingOf(ticket), 1)]

\* runApply lines 46-68: the tickets with pending changes, in directory order.
ApplyStart ==
    /\ Idle
    /\ runs < MaxRuns
    /\ runs' = runs + 1
    /\ LET filtered == {id \in DOMAIN store : readable(store, id) /\ hasPendingChanges(store[id])}
       IN  /\ filtered # {}
           /\ \E queue \in Orders(filtered) :
                apply' = [pc |-> "ticket", queue |-> queue, qi |-> 1,
                          ticket |-> None, ci |-> 1, li |-> 1,
                          log |-> <<>>, out |-> <<>>, warn |-> "none",
                          unavailable |-> None]
    /\ UNCHANGED <<lib, exitStatus, said, torn, queued, time, skew, remote, rlinks, redits, store, syncState, pull>>

\* applyTicketChanges lines 85-121: the ticket is read; a ticket marked
\* deleted is deleted at the remote and then locally; otherwise the remote
\* state is fetched for the divergence warning and the apply goes on.
ApplyTicket ==
    /\ apply.pc = "ticket"
    /\ apply.qi <= Len(apply.queue)
    /\ LET id == apply.queue[apply.qi]
           ticket == store[id]
           a == [apply EXCEPT !.ticket = Some(ticket), !.ci = 1, !.li = 1, !.log = <<>>,
                              !.warn = "none", !.unavailable = None]
       IN  IF IsSome(ticket.offline.deleted)
           THEN \/ /\ remote[ticket.key].exists
                   /\ remote' = [remote EXCEPT ![ticket.key].exists = FALSE,
                                               ![ticket.key].gone = TRUE]
                   /\ rlinks' = {l \in rlinks : l.inwardKey # ticket.key /\ l.outwardKey # ticket.key}
                   /\ store' = unlinked(store, id)
                   /\ apply' = passTicket([a EXCEPT !.log = <<[kind |-> "delete", value |-> ticket.key]>>])
                \/ /\ apply' = failTicket(a)
                   /\ UNCHANGED <<remote, rlinks, store>>
           ELSE /\ \E warn \in remoteChecks(ticket) :
                     apply' = afterRemoteCheck(a, ticket, warn)
                /\ UNCHANGED <<remote, rlinks, store>>
    /\ UNCHANGED <<lib, exitStatus, said, torn, runs, queued, time, skew, redits, syncState, pull>>

\* The pending changes read at line 100.
applyPending == pendingOf(Val(apply.ticket))
applyKey == Val(apply.ticket).key

\* String.prototype.toLowerCase, on the names the model uses.
toLowerCase(str) ==
    CASE str = "Open" -> "open"
      [] str = "Done" -> "done"
      [] str = "Close" -> "close"
      [] str = "Reopen" -> "reopen"
      [] OTHER -> str

\* Variant of transitionMatches that compares the names as they are written.
transitionMatchesExactly(t, targetStatus) ==
    t.name = targetStatus \/ t.to = targetStatus

\* applyStatusChange lines 180-183: the predicate of transitions.find.
transitionMatches(t, targetStatus) ==
    \/ toLowerCase(t.name) = toLowerCase(targetStatus)
    \/ toLowerCase(t.to) = toLowerCase(targetStatus)

\* Array.prototype.find: the first transition that matches, if any.
findTransition(transitions, targetStatus) ==
    LET hits == {n \in 1..Len(transitions) : transitionMatches(transitions[n], targetStatus)}
    IN  IF hits = {} THEN None
        ELSE Some(transitions[CHOOSE n \in hits : \A m \in hits : n <= m])

\* Line 186: the names the error message lists.
availableNames(transitions) == [n \in 1..Len(transitions) |-> transitions[n].name]

\* Lines 127-128 and applyStatusChange: the transition to the requested
\* status is looked up and executed; the error thrown when none matches
\* lists the transitions there are; either remote call may fail.
ApplyStatus ==
    /\ apply.pc = "status"
    /\ LET targetStatus == applyPending["status"]
           transitions == Transitions(remote[applyKey].status)
           target == findTransition(transitions, targetStatus)
       IN  \/ /\ remote[applyKey].exists
              /\ IsSome(target)
              /\ remote' = [remote EXCEPT ![applyKey] =
                                touched([@ EXCEPT !.status = Val(target).to], "status")]
              /\ apply' = [apply EXCEPT !.pc = nextStage(applyPending, 2),
                                        !.log = Append(@, [kind |-> "transition", value |-> targetStatus])]
           \/ /\ remote[applyKey].exists
              /\ ~IsSome(target)
              /\ apply' = failTicket([apply EXCEPT !.unavailable = Some(availableNames(transitions))])
              /\ remote' = remote
           \/ /\ apply' = failTicket(apply)
              /\ remote' = remote
    /\ UNCHANGED <<lib, exitStatus, said, torn, runs, queued, time, skew, rlinks, redits, store, syncState, pull>>

\* Lines 129-138: the other pending fields go out as one field update.
ApplyUpdate ==
    /\ apply.pc = "update"
    /\ \/ /\ remote[applyKey].exists
          /\ LET r0 == remote[applyKey]
                 r1 == IF "summary" \in DOMAIN applyPending
                       THEN touched([r0 EXCEPT !.summary = applyPending["summary"]], "summary")
                       ELSE r0
                 r2 == IF "labels" \in DOMAIN applyPending
                       THEN touched([r1 EXCEPT !.labels = applyPending["labels"]], "labels")
                       ELSE r1
             IN  remote' = [remote EXCEPT ![applyKey] = r2]
          /\ apply' = [apply EXCEPT !.pc = nextStage(applyPending, 3),
                                    !.log = Append(@, [kind |-> "update",
                                                       value |-> updateShown(applyPending),
                                                       fields |-> sentFields(applyPending)])]
       \/ /\ apply' = failTicket(apply)
          /\ remote' = remote
    /\ UNCHANGED <<lib, exitStatus, said, torn, runs, queued, time, skew, rlinks, redits, store, syncState, pull>>

\* Lines 141-146: the next queued comment is posted.
ApplyComment ==
    /\ apply.pc = "comments"
    /\ LET comments == pendingList(applyPending, "comments")
           comment == comments[apply.ci]
       IN  \/ /\ remote[applyKey].exists
              /\ Len(remote[applyKey].comments) < MaxRemoteComments
              /\ remote' = [remote EXCEPT ![applyKey].comments = Append(@, comment.text),
                                          ![applyKey].updated = RemoteNow]
              /\ apply' = [apply EXCEPT
                              !.ci = @ + 1,
                              !.pc = IF apply.ci < Len(comments) THEN "comments"
                                     ELSE nextStage(applyPending, 4),
                              !.log = Append(@, [kind |-> "comment", value |-> comment.text])]
           \/ /\ apply' = failTicket(apply)
              /\ remote' = remote
    /\ UNCHANGED <<lib, exitStatus, said, torn, runs, queued, time, skew, rlinks, redits, store, syncState, pull>>

\* Lines 149-163: the next queued link operation is executed.
ApplyLink ==
    /\ apply.pc = "links"
    /\ LET links == pendingList(applyPending, "links")
           link == links[apply.li]
           a == [apply EXCEPT
                    !.li = @ + 1,
                    !.pc = IF apply.li < Len(links) THEN "links" ELSE "final",
                    !.log = Append(@, [kind |-> link.action, value |-> link.outwardKey,
                                       type |-> link.type, inwardKey |-> link.inwardKey])]
       IN  \/ /\ link.action = "add"
              /\ remote[link.inwardKey].exists /\ remote[link.outwardKey].exists
              /\ rlinks' = rlinks \cup {[type |-> link.type, inwardKey |-> link.inwardKey,
                                         outwardKey |-> link.outwardKey]}
              /\ apply' = a
           \/ /\ link.action = "remove"
              /\ \E l \in matchingLinks(link.inwardKey, link.outwardKey, link.type) :
                    rlinks' = rlinks \ {l}
              /\ apply' = a
           \/ /\ apply' = failTicket(apply)
              /\ rlinks' = rlinks
    /\ UNCHANGED <<lib, exitStatus, said, torn, runs, queued, time, skew, remote, redits, store, syncState, pull>>

\* Lines 165-173: the issue is fetched again and saved, then the pending
\* changes are cleared.
ApplyFinal ==
    /\ apply.pc = "final"
    /\ LET id == apply.queue[apply.qi]
       IN  \/ /\ remote[applyKey].exists
              /\ store' = clearPending(
                            saveIssue(store, issueOf(applyKey), HostUrl,
                                      [comments |-> None, changelog |-> None], LocalNow),
                            id)
              /\ apply' = passTicket(apply)
           \/ /\ apply' = failTicket(apply)
              /\ store' = store
    /\ UNCHANGED <<lib, exitStatus, said, torn, runs, queued, time, skew, remote, rlinks, redits, syncState, pull>>

\* Line 81: every ticket was tried; the counts are printed.
ApplyEnd ==
    /\ apply.pc = "ticket"
    /\ apply.qi > Len(apply.queue)
    /\ apply' = [apply EXCEPT !.pc = "done"]
    /\ UNCHANGED <<lib, exitStatus, said, torn, runs, queued, time, skew, remote, rlinks, redits, store, syncState, pull>>

\* The command exits.
ApplyExit ==
    /\ apply.pc = "done"
    /\ apply' = idleCommand
    /\ exitStatus' = 0
    /\ UNCHANGED <<lib, said, torn, runs, queued, time, skew, remote, rlinks, redits, store, syncState, pull>>

(***************************************************************************)
(* Process termination.  Both writers of a ticket file, saveIssue (line    *)
(* 194) and updateOffline (line 378), call writeFileSync on the file's own *)
(* path: the file is truncated and then filled, so a process that dies in  *)
(* between leaves a prefix of the new content.                             *)
(***************************************************************************)
\* The issue a running pull saves next, if it has one.
nextSaved ==
    IF pull.pc = "items" /\ pull.i <= Len(pull.issues)
    THEN Some(pull.issues[pull.i])
    ELSE IF pull.pc = "byid" /\ pull.i <= Len(pull.ids) /\ remote[pull.ids[pull.i]].exists
         THEN Some(issueOf(pull.ids[pull.i]))
         ELSE None

\* storage.mjs line 194: the pull dies inside saveIssue's writeFileSync.
CrashInSave ==
    /\ IsSome(nextSaved)
    /\ LET issue == Val(nextSaved)
       IN  /\ \E options \in Enrichments(issue.key) :
                store' = saveIssue(store, issue, HostUrl, options, LocalNow)
           /\ torn' = torn \cup {generateId(HostUrl, issue.key)}
    /\ pull' = idleCommand
    /\ UNCHANGED <<lib, exitStatus, said, runs, queued, time, skew, remote, rlinks, redits, syncState, apply>>

\* storage.mjs line 378: an edit, comment, link, delete or mark command dies
\* inside updateOffline's writeFileSync.
CrashInUpdate(id) ==
    /\ Idle
    /\ readable(store, id)
    /\ torn' = torn \cup {id}
    /\ UNCHANGED <<lib, exitStatus, said, runs, queued, time, skew, remote, rlinks, redits, store, syncState, pull, apply>>

\* Variant of PullKill in which the dying pull still writes its ledger.
PullKillFlush ==
    /\ pull.pc \in {"pattern", "items"}
    /\ syncState' = pull.mem
    /\ pull' = idleCommand
    /\ UNCHANGED <<lib, exitStatus, said, torn, runs, queued, time, skew, remote, rlinks, redits, store, apply>>

\* The pull is terminated between two of its steps.
PullKill ==
    /\ pull.pc \notin {"idle", "done"}
    /\ pull' = idleCommand
    /\ UNCHANGED <<lib, exitStatus, said, torn, runs, queued, time, skew, remote, rlinks, redits, store, syncState, apply>>

(***************************************************************************)
(* The specification.                                                      *)
(***************************************************************************)
Next ==
    \/ Tick
    \/ \E k \in Keys : RemoteEdit(k)
    \/ \E id \in Ids : \E v \in Summaries : Edit(id, "summary", v)
    \/ \E id \in Ids : \E v \in Statuses : Edit(id, "status", v)
    \/ \E id \in Ids : \E v \in LabelValues : LabelEdit(id, v)
    \/ \E k \in Keys : \E labels \in RemoteLabels : RemoteLabel(k, labels)
    \/ \E id \in Ids : \E text \in CommentTexts : Comment(id, text)
    \/ \E id1, id2 \in Ids : \E isRemove \in BOOLEAN : Link(id1, id2, isRemove)
    \/ \E id \in Ids : \E clear \in BOOLEAN : Delete(id, clear)
    \/ \E id \in Ids : \E clear \in BOOLEAN : Mark(id, clear)
    \/ \E id \in Ids : EditTags(id)
    \/ \E forceFull \in BOOLEAN : PullStart(forceFull)
    \/ PullSearch
    \/ PullItem
    \/ PullAdvance
    \/ PullFinish
    \/ \E ids \in IdLists : PullIdsStart(ids)
    \/ PullSingle
    \/ PullIdsFinish
    \/ PullExit
    \/ ApplyStart
    \/ ApplyTicket
    \/ ApplyStatus
    \/ ApplyUpdate
    \/ ApplyComment
    \/ ApplyLink
    \/ ApplyFinal
    \/ ApplyEnd
    \/ ApplyExit
    \/ CrashInSave
    \/ \E id \in Ids : CrashInUpdate(id)
    \/ PullKill

Spec == Init /\ [][Next]_vars

(***************************************************************************)
(* Pulls against a remote that other users change, with the offline        *)
(* section of the stored tickets filled by one command of each kind.       *)
(***************************************************************************)
PullCommands ==
    \/ \E forceFull \in BOOLEAN : PullStart(forceFull)
    \/ PullSearch
    \/ PullItem
    \/ PullAdvance
    \/ PullFinish
    \/ \E ids \in IdLists : PullIdsStart(ids)
    \/ PullSingle
    \/ PullIdsFinish
    \/ PullExit

\* The ticket the local commands of this specification work on.
Id1 == generateId(HostUrl, "A-1")

\* edit, delete, mark and a hand edit of the tags, each once.
LocalOps ==
    \/ ~IsSome(store[Id1].offline.pending) /\ Edit(Id1, "summary", "s1")
    \/ ~IsSome(store[Id1].offline.deleted) /\ Delete(Id1, FALSE)
    \/ ~IsSome(store[Id1].offline.last_read) /\ Mark(Id1, FALSE)
    \/ EditTags(Id1)

InitPull == Init /\ remote["A-2"] = noIssue

NextPull ==
    \/ Tick
    \/ RemoteEdit("A-1")
    \/ Id1 \in DOMAIN store /\ LocalOps
    \/ PullCommands

SpecPull == InitPull /\ [][NextPull]_vars

(***************************************************************************)
(* Pattern pulls against a remote with two issues that other users change. *)
(***************************************************************************)
NextCursor ==
    \/ Tick
    \/ \E k \in Keys : RemoteEdit(k)
    \/ \E forceFull \in BOOLEAN : PullStart(forceFull)
    \/ PullSearch
    \/ PullItem
    \/ PullAdvance
    \/ PullFinish
    \/ PullExit
    \/ PullKill

SpecCursor == Init /\ [][NextCursor]_vars

(***************************************************************************)
(* Applies of queued changes.  Both issues exist and were pulled by id     *)
(* (`jira pull A-1 A-2`) before the first change is queued.                *)
(***************************************************************************)
InitApply ==
    /\ time = 0
    /\ skew \in (0 - MaxSkew)..MaxSkew
    /\ remote = [k \in Keys |-> newIssue(0)]
    /\ rlinks = {}
    /\ redits = 0
    /\ store = saveIssue(
                 saveIssue([i \in {} |-> None], issueOf("A-1"), HostUrl,
                           [comments |-> Some(<<>>), changelog |-> Some({})], LocalNow),
                 issueOf("A-2"), HostUrl,
                 [comments |-> Some(<<>>), changelog |-> Some({})], LocalNow)
    /\ syncState = [p \in {} |-> None]
    /\ pull = idleCommand
    /\ apply = idleCommand
    /\ runs = 0
    /\ queued = 0
    /\ torn = {}
    /\ said = [label |-> "", text |-> ""]
    /\ exitStatus = 0
    /\ lib = noCall

ApplyCommands ==
    \/ ApplyStart
    \/ ApplyTicket
    \/ ApplyStatus
    \/ ApplyUpdate
    \/ ApplyComment
    \/ ApplyLink
    \/ ApplyFinal
    \/ ApplyEnd
    \/ ApplyExit

\* Every kind of change is queued on A-1, which may also be marked as read
\* and pulled again; A-2 gets an edit or a deletion.
NextApply ==
    \/ Tick
    \/ Edit(Id1, "summary", "s1")
    \/ Edit(Id1, "status", "Done")
    \/ \E text \in CommentTexts : Comment(Id1, text)
    \/ \E id2 \in Ids : \E isRemove \in BOOLEAN : Link(Id1, id2, isRemove)
    \/ \E id \in Ids : Delete(id, FALSE)
    \/ \E id \in Ids \ {Id1} : Edit(id, "summary", "s1")
    \/ Mark(Id1, FALSE)
    \/ PullIdsStart(<<"A-1">>)
    \/ PullSingle
    \/ PullIdsFinish
    \/ PullExit
    \/ ApplyCommands

SpecApply == InitApply /\ [][NextApply]_vars

(***************************************************************************)
(* Applies of status edits written as the user may write them: a target    *)
(* state in another case, the name of a transition, a name the issue's     *)
(* state offers no transition for.                                         *)
(***************************************************************************)
StatusRequests == {"done", "Close", "Reopen"}

NextStatus ==
    \/ Tick
    \/ \E v \in StatusRequests : Edit(Id1, "status", v)
    \/ Edit(Id1, "summary", "s1")
    \/ Comment(Id1, "c1")
    \/ \E id2 \in Ids \ {Id1} : Link(Id1, id2, FALSE)
    \/ ApplyCommands

SpecStatus == InitApply /\ [][NextStatus]_vars

(***************************************************************************)
(* Label edits on a ticket whose labels other users change and pulls       *)
(* bring in.                                                               *)
(***************************************************************************)
NextLabels ==
    \/ \E labels \in RemoteLabels : RemoteLabel("A-1", labels)
    \/ \E v \in LabelValues : LabelEdit(Id1, v)
    \/ PullIdsStart(<<"A-1">>)
    \/ PullSingle
    \/ PullIdsFinish
    \/ PullExit

SpecLabels == InitPull /\ [][NextLabels]_vars

(***************************************************************************)
(* Links queued between the tickets of two hosts: A-1 and A-2 of the first *)
(* host and the A-1 of the second.                                         *)
(***************************************************************************)
OtherId == generateId(OtherHostUrl, "A-1")

InitLink ==
    /\ time = 0
    /\ skew \in (0 - MaxSkew)..MaxSkew
    /\ remote = [k \in Keys |-> newIssue(0)]
    /\ rlinks = {}
    /\ redits = 0
    /\ store = saveIssue(
                 saveIssue(
                   saveIssue([i \in {} |-> None], issueOf("A-1"), HostUrl,
                             [comments |-> Some(<<>>), changelog |-> Some({})], LocalNow),
                   issueOf("A-2"), HostUrl,
                   [comments |-> Some(<<>>), changelog |-> Some({})], LocalNow),
                 issueOf("A-1"), OtherHostUrl,
                 [comments |-> Some(<<>>), changelog |-> Some({})], LocalNow)
    /\ syncState = [p \in {} |-> None]
    /\ pull = idleCommand
    /\ apply = idleCommand
    /\ runs = 0
    /\ queued = 0
    /\ torn = {}
    /\ said = [label |-> "", text |-> ""]
    /\ exitStatus = 0
    /\ lib = noCall

NextLink ==
    \/ Tick
    \/ \E id1, id2 \in Ids \cup {OtherId} : \E isRemove \in BOOLEAN : Link(id1, id2, isRemove)
    \/ \E id \in Ids \cup {OtherId} : \E text \in CommentTexts : Comment(id, text)

SpecLink == InitLink /\ [][NextLink]_vars

(***************************************************************************)
(* Deletion markers set and cleared, on tickets that pulls refresh.        *)
(***************************************************************************)
NextDelete ==
    \/ Tick
    \/ RemoteEdit("A-1")
    \/ \E id \in Ids : \E clear \in BOOLEAN : Delete(id, clear)
    \/ PullIdsStart(<<"A-1">>)
    \/ PullSingle
    \/ PullIdsFinish
    \/ PullExit

SpecDelete == InitApply /\ [][NextDelete]_vars

(***************************************************************************)
(* Pulls of one ticket and local commands on it, any of which may die      *)
(* while it writes the ticket's file.                                      *)
(***************************************************************************)
NextCrash ==
    \/ Tick
    \/ Id1 \in DOMAIN store /\ LocalOps
    \/ PullIdsStart(<<"A-1">>)
    \/ PullSingle
    \/ PullIdsFinish
    \/ PullExit
    \/ PullKill
    \/ CrashInSave
    \/ CrashInUpdate(Id1)

SpecCrash == InitPull /\ [][NextCrash]_vars

(***************************************************************************)
(* A ticket marked read and unread, between pulls that refresh it.         *)
(***************************************************************************)
NextRead ==
    \/ Tick
    \/ RemoteEdit("A-1")
    \/ \E id \in Ids : \E clear \in BOOLEAN : Mark(id, clear)
    \/ PullIdsStart(<<"A-1">>)
    \/ PullSingle
    \/ PullIdsFinish
    \/ PullExit

SpecRead == InitPull /\ [][NextRead]_vars

(***************************************************************************)
(* A pulled ticket that is marked read, commented on at the remote and     *)
(* pulled by id again and again.                                           *)
(***************************************************************************)
NextUnread ==
    \/ Tick
    \/ RemoteEdit("A-1")
    \/ \E clear \in BOOLEAN : Mark(Id1, clear)
    \/ PullIdsStart(<<"A-1">>)
    \/ PullSingle
    \/ PullIdsFinish
    \/ PullExit

SpecUnread == InitApply /\ [][NextUnread]_vars

(***************************************************************************)
(* Calls of resolveId, on every storage directory and on the inputs a user  *)
(* may type: a prefix of a digest, in either case, with blanks around it,   *)
(* with the file's extension or a part of it, or an issue key.              *)
(***************************************************************************)
InputBases == {SubSeq(d, 1, n) : d \in Digests, n \in 0..IdLen}
Inputs ==
    InputBases
        \cup {upperCase(b) : b \in InputBases}
        \cup {b \o DotMd : b \in InputBases}
        \cup {<<" ">> \o b \o <<" ">> : b \in InputBases}
        \cup {b \o <<".">> : b \in InputBases}
        \cup {<<"a", "-", "1">>, <<"B", "-", "2">>, <<"a", "-", "1", "1">>}

\* The rest of the program while a library function is called on its own.
AtRest ==
    /\ time = 0
    /\ skew = 0
    /\ remote = [k \in Keys |-> noIssue]
    /\ rlinks = {}
    /\ redits = 0
    /\ store = [i \in {} |-> None]
    /\ syncState = [p \in {} |-> None]
    /\ pull = idleCommand
    /\ apply = idleCommand
    /\ runs = 0
    /\ queued = 0
    /\ torn = {}
    /\ said = [label |-> "", text |-> ""]
    /\ exitStatus = 0

InitResolve ==
    /\ AtRest
    /\ lib \in {[fn |-> "resolveId", input |-> i, dir |-> d, result |-> None] :
                    i \in Inputs, d \in SUBSET FileNames}

ResolveId ==
    /\ lib.fn = "resolveId"
    /\ ~IsSome(lib.result)
    /\ lib' = [lib EXCEPT !.result = Some(resolveId(lib.input, lib.dir))]
    /\ UNCHANGED <<time, skew, remote, rlinks, redits, store, syncState, pull,
                   apply, runs, queued, torn, said, exitStatus>>

NextResolve == ResolveId

SpecResolve == InitResolve /\ [][NextResolve]_vars

(***************************************************************************)
(* Calls of resolveId with an issue key, on the directories of a user with *)
(* two hosts: the issue A-1 of the second host may be stored as well.      *)
(***************************************************************************)
KeyInputs ==
    {<<"A", "-", "1">>, <<"a", "-", "1">>, <<"A", "-", "2">>, <<"b", "-", "1">>,
     <<"B", "-", "2">>, <<"A", "-", "1", "1">>, <<" ", "a", "-", "1">>,
     <<"A", "-", "1">> \o DotMd}

InitKey ==
    /\ AtRest
    /\ lib \in {[fn |-> "resolveId", input |-> i, dir |-> d, result |-> None] :
                    i \in KeyInputs, d \in SUBSET (FileNames \cup {IdE \o DotMd})}

SpecKey == InitKey /\ [][NextResolve]_vars

(***************************************************************************)
(* The query of a pattern, built for every base filter of a few words: a    *)
(* filter of terms and string literals, then an ordering clause or none.    *)
(***************************************************************************)
\* The words of a base filter, at most.
MaxWords == 5
Words == {"p", "k", "ORDER", "by", QOpen, QClose}

\* Whether a string literal is open after the first n words.
RECURSIVE literalOpen(_, _)
literalOpen(jql, n) ==
    IF n = 0 THEN FALSE
    ELSE IF jql[n] = QOpen THEN TRUE
    ELSE IF jql[n] = QClose THEN FALSE
    ELSE literalOpen(jql, n - 1)

\* The word n is part of a string literal.
inLiteral(jql, n) == literalOpen(jql, n - 1) \/ jql[n] = QOpen

\* Where the ordering clause of a JQL expression starts: at its first ORDER
\* BY outside the string literals; 0 when it has none.
orderingStart(jql) ==
    LET S == {n \in 1..(Len(jql) - 1) :
                 /\ ~inLiteral(jql, n)
                 /\ lowerWord(jql[n]) = "order"
                 /\ lowerWord(jql[n + 1]) = "by"}
    IN  IF S = {} THEN 0 ELSE CHOOSE n \in S : \A m \in S : n <= m

\* A JQL expression Jira accepts: each literal is closed before the next
\* opens, ORDER and BY stand outside the literals only as the head of the
\* ordering clause, and the ordering clause is a list of sort keys.
wellFormedJql(jql) ==
    /\ \A n \in 1..Len(jql) :
           /\ jql[n] = QOpen => ~literalOpen(jql, n - 1)
           /\ jql[n] = QClose => literalOpen(jql, n - 1)
    /\ ~literalOpen(jql, Len(jql))
    /\ LET s == orderingStart(jql)
       IN  /\ \A n \in 1..Len(jql) :
                  (~inLiteral(jql, n) /\ lowerWord(jql[n]) \in {"order", "by"}) =>
                      s # 0 /\ n \in {s, s + 1}
           /\ s # 0 => /\ s + 2 <= Len(jql)
                       /\ \A n \in (s + 2)..Len(jql) : jql[n] = "k"

BaseJqls ==
    {jql \in UNION {[1..n -> Words] : n \in 1..MaxWords} : wellFormedJql(jql)}

InitQuery ==
    /\ AtRest
    /\ lib \in {[fn |-> "incrementalJql", baseJql |-> b, lastSync |-> c,
                 forceFull |-> f, result |-> None] :
                    b \in BaseJqls, c \in {None} \cup {Some(t) : t \in 0..(MaxTime + MaxSkew)},
                    f \in BOOLEAN}

BuildQuery ==
    /\ lib.fn = "incrementalJql"
    /\ ~IsSome(lib.result)
    /\ lib' = [lib EXCEPT !.result =
                  Some(incrementalJql(lib.baseJql, lib.lastSync, lib.forceFull))]
    /\ UNCHANGED <<time, skew, remote, rlinks, redits, store, syncState, pull,
                   apply, runs, queued, torn, said, exitStatus>>

NextQuery == BuildQuery

SpecQuery == InitQuery /\ [][NextQuery]_vars

(***************************************************************************)
(* lib/api.mjs searchAll, against a server that answers each page request  *)
(* as it likes: any number of issues, more than asked for included, and    *)
(* any total.  The issues are numbered by their place in the result.       *)
(***************************************************************************)
\* options.maxResults, the size of a page (100 in the code).
MaxResults == 2
\* The greatest pattern.limit tried.
MaxLimit == 3
\* The greatest total the server reports.
MaxTotal == 4

Min(a, b) == IF a < b THEN a ELSE b

\* Variant of fetchSize that asks for a whole page every time.
fetchSizeOfPage(limit, maxResults, fetched) == maxResults

\* Line 102: the size of the next page; limit is 0 when the caller gave
\* none (`limit = null`).
fetchSize(limit, maxResults, fetched) ==
    IF limit # 0 THEN Min(maxResults, limit - fetched) ELSE maxResults

\* Line 124
sliced(allIssues, limit) ==
    IF limit # 0 THEN SubSeq(allIssues, 1, Min(limit, Len(allIssues))) ELSE allIssues

\* pull.mjs 309-310: `pattern.limit ? { limit: pattern.limit } : {}`, then
\* searchAll starts with nothing fetched.
InitSearch ==
    /\ AtRest
    /\ lib \in {[fn |-> "searchAll", limit |-> l, allIssues |-> <<>>, startAt |-> 0,
                 asked |-> 0, got |-> 0, total |-> 0, result |-> None] :
                    l \in 0..MaxLimit}

\* Lines 100-121: one turn of the loop.  A page is asked for and answered,
\* its issues are kept, and the loop breaks (line 124 returns) or goes on.
SearchPage ==
    /\ lib.fn = "searchAll"
    /\ ~IsSome(lib.result)
    /\ \E n \in 0..(MaxResults + 1) : \E total \in 0..MaxTotal :
          LET size == fetchSize(lib.limit, MaxResults, Len(lib.allIssues))
              issues == [i \in 1..n |-> lib.startAt + i]
              all == lib.allIssues \o issues
              over == \/ lib.limit # 0 /\ Len(all) >= lib.limit
                      \/ lib.startAt + n >= total
          IN  lib' = [lib EXCEPT !.asked = size, !.got = n, !.total = total,
                                 !.allIssues = all,
                                 !.startAt = IF over THEN @ ELSE @ + n,
                                 !.result = IF over THEN Some(sliced(all, lib.limit))
                                            ELSE None]
    /\ UNCHANGED <<time, skew, remote, rlinks, redits, store, syncState, pull,
                   apply, runs, queued, torn, said, exitStatus>>

NextSearch == SearchPage

SpecSearch == InitSearch /\ [][NextSearch]_vars

(***************************************************************************)
(* commands/plan.mjs runPlan, on the stores that the queueing commands      *)
(* leave.                                                                   *)
(***************************************************************************)
\* The sum of the function f over the elements of the set S.
RECURSIVE sumOver(_, _)
sumOver(S, f) ==
    IF S = {} THEN 0
    ELSE LET x == CHOOSE y \in S : TRUE IN f[x] + sumOver(S \ {x}, f)

\* Variant of planCounts that goes through the queue of a ticket marked for
\* deletion as well.
planCountsOfAll(st) ==
    LET filtered == {id \in DOMAIN st : readable(st, id) /\ hasPendingChanges(st[id])}
        deleted == {id \in filtered : IsSome(st[id].offline.deleted)}
        shown == {id \in filtered : IsSome(st[id].offline.pending)}
        fields(id) == Cardinality(DOMAIN pendingOf(st[id]) \ {"comments", "links"})
        comments(id) == Len(pendingList(pendingOf(st[id]), "comments"))
        links(id) == Len(pendingList(pendingOf(st[id]), "links"))
    IN  [tickets |-> Cardinality(filtered),
         deleteCount |-> Cardinality(deleted),
         updateCount |-> sumOver(shown, [id \in shown |-> fields(id)]),
         commentCount |-> sumOver(shown, [id \in shown |-> comments(id)]),
         linkCount |-> sumOver(shown, [id \in shown |-> links(id)])]

\* Lines 43-117: the tickets with something to push (line 44) and the counts
\* the loop of lines 63-108 arrives at.  A ticket marked for deletion is
\* counted as a deletion and passed over (line 74), one without `pending`
\* is passed over (line 78).
planCounts(st) ==
    LET filtered == {id \in DOMAIN st : readable(st, id) /\ hasPendingChanges(st[id])}
        deleted == {id \in filtered : IsSome(st[id].offline.deleted)}
        shown == {id \in filtered \ deleted : IsSome(st[id].offline.pending)}
        fields(id) == Cardinality(DOMAIN pendingOf(st[id]) \ {"comments", "links"})
        comments(id) == Len(pendingList(pendingOf(st[id]), "comments"))
        links(id) == Len(pendingList(pendingOf(st[id]), "links"))
    IN  [tickets |-> Cardinality(filtered),
         deleteCount |-> Cardinality(deleted),
         updateCount |-> sumOver(shown, [id \in shown |-> fields(id)]),
         commentCount |-> sumOver(shown, [id \in shown |-> comments(id)]),
         linkCount |-> sumOver(shown, [id \in shown |-> links(id)])]

\* Variant of planned that goes on to the queue of a ticket marked for
\* deletion.
plannedWithQueue(ticket) ==
    LET pendingData == pendingOf(ticket)
        comments == pendingList(pendingData, "comments")
        links == pendingList(pendingData, "links")
    IN  [deleted |-> IsSome(ticket.offline.deleted),
         fields |-> [f \in DOMAIN pendingData \ {"comments", "links"} |-> pendingData[f]],
         comments |-> [n \in 1..Len(comments) |-> comments[n].text],
         links |-> [n \in 1..Len(links) |->
                      [action |-> links[n].action, inwardKey |-> links[n].inwardKey,
                       type |-> links[n].type, outwardKey |-> links[n].outwardKey]]]

\* Lines 63-110: what the plan lists of one ticket: the deletion and nothing
\* else (line 74), or every field entry with the queued value (status among
\* them), the queued comments in order, the queued link operations in order.
planned(ticket) ==
    LET pendingData == pendingOf(ticket)
        comments == pendingList(pendingData, "comments")
        links == pendingList(pendingData, "links")
    IN  IF IsSome(ticket.offline.deleted)
        THEN [deleted |-> TRUE, fields |-> EmptyPending, comments |-> <<>>, links |-> <<>>]
        ELSE [deleted |-> FALSE,
              fields |-> [f \in DOMAIN pendingData \ {"comments", "links"} |-> pendingData[f]],
              comments |-> [n \in 1..Len(comments) |-> comments[n].text],
              links |-> [n \in 1..Len(links) |->
                           [action |-> links[n].action, inwardKey |-> links[n].inwardKey,
                            type |-> links[n].type, outwardKey |-> links[n].outwardKey]]]

\* Line 44: the tickets the plan lists.
planTickets(st) == {id \in DOMAIN st : readable(st, id) /\ hasPendingChanges(st[id])}

\* `jira plan`: the counts are printed; nothing is written.
Plan ==
    /\ Idle
    /\ lib' = [fn |-> "runPlan", counts |-> planCounts(store)]
    /\ lib' # lib
    /\ exitStatus' = 0
    /\ UNCHANGED <<time, skew, remote, rlinks, redits, store, syncState, pull,
                   apply, runs, queued, torn, said>>

NextPlan ==
    \/ \E id \in Ids : Edit(id, "summary", "s1")
    \/ Edit(Id1, "status", "Done")
    \/ LabelEdit(Id1, <<"+", "x">>)
    \/ \E text \in CommentTexts : Comment(Id1, text)
    \/ \E id2 \in Ids : \E isRemove \in BOOLEAN : Link(Id1, id2, isRemove)
    \/ \E id \in Ids : \E clear \in BOOLEAN : Delete(id, clear)
    \/ Plan

SpecPlan == InitApply /\ [][NextPlan]_vars

(***************************************************************************)
(* The cursors of two sync patterns of one host, whatever the text of the   *)
(* patterns: short filters over a few characters, and the same filters      *)
(* behind a long common beginning.  A pattern is the object {jql: <text>}.  *)
(***************************************************************************)
\* The characters of a short filter, at most.
MaxJqlLen == 2
\* Line 84: substring(0, 64), the length a key is cut to.
KeyLen == 64

JqlChars == {"a", "1", "=", ">"}
ShortJqls == UNION {[1..n -> JqlChars] : n \in 1..MaxJqlLen}
LongBeginning == [n \in 1..KeyLen |-> "a"]
Jqls == ShortJqls \cup {LongBeginning \o t : t \in ShortJqls}

\* JSON.stringify of the pattern object.
stringify(pattern) ==
    <<"{", "\"", "j", "q", "l", "\"", ":", "\"">> \o pattern.jql \o <<"\"", "}">>

isAlphanumeric(c) == c \in {"a", "j", "l", "q", "1"}

\* replace(/[^a-zA-Z0-9]/g, '_')
underscored(str) ==
    [n \in 1..Len(str) |-> IF isAlphanumeric(str[n]) THEN str[n] ELSE "_"]

\* Lines 83-85, patternKey: the key of a pattern in the ledger, computed
\* from the text of the pattern.
cacheKey(pattern) == substring(underscored(stringify(pattern)), KeyLen)

InitPatterns ==
    /\ AtRest
    /\ lib \in {[fn |-> "pullPattern", patterns |-> <<[jql |-> a], [jql |-> b]>>,
                 pulled |-> {}, lastSync |-> None] :
                    a \in Jqls, b \in Jqls}
    /\ lib.patterns[1] # lib.patterns[2]

\* Lines 281-282 and 349-350: the pull of one pattern reads the cursor under
\* the pattern's key and, at its end, sets it; the stamp depends on the
\* issues found.
PullPattern(i) ==
    /\ lib.fn = "pullPattern"
    /\ Idle
    /\ runs < MaxRuns
    /\ runs' = runs + 1
    /\ LET pKey == cacheKey(lib.patterns[i])
       IN  /\ lib' = [lib EXCEPT !.lastSync = cursorOf(syncState, pKey),
                                 !.pulled = @ \cup {i}]
           /\ \E stamp \in 0..(MaxTime + MaxSkew) :
                 syncState' = [k \in DOMAIN syncState \cup {pKey} |->
                                  IF k = pKey THEN Some(stamp) ELSE syncState[k]]
    /\ UNCHANGED <<time, skew, remote, rlinks, redits, store, pull, apply,
                   queued, torn, said, exitStatus>>

NextPatterns == \E i \in 1..2 : PullPattern(i)

SpecPatterns == InitPatterns /\ [][NextPatterns]_vars

(***************************************************************************)
(* Incremental pattern pulls with `jira clean` run between them.            *)
(***************************************************************************)
NextClean ==
    \/ Tick
    \/ \E k \in Keys : RemoteEdit(k)
    \/ PullStart(FALSE)
    \/ PullSearch
    \/ PullItem
    \/ PullAdvance
    \/ PullFinish
    \/ PullExit
    \/ Clean

SpecClean == Init /\ [][NextClean]_vars

(***************************************************************************)
(* The base filter of a sync pattern, for the patterns a configuration may  *)
(* hold: a project, a jql filter, both, or neither.                         *)
(***************************************************************************)
Projects == {"SRE", "OPS"}

InitBase ==
    /\ AtRest
    /\ lib \in {[fn |-> "baseJql", pattern |-> [project |-> p, jql |-> j],
                 result |-> None] :
                    p \in {None} \cup {Some(x) : x \in Projects},
                    j \in {None} \cup {Some(x) : x \in BaseJqls}}

\* Lines 272-278: the base filter is computed, null for an invalid pattern.
BuildBase ==
    /\ lib.fn = "baseJql"
    /\ ~IsSome(lib.result)
    /\ lib' = [lib EXCEPT !.result = Some(baseJqlOf(lib.pattern))]
    /\ UNCHANGED <<time, skew, remote, rlinks, redits, store, syncState, pull,
                   apply, runs, queued, torn, said, exitStatus>>

NextBase == BuildBase

SpecBase == InitBase /\ [][NextBase]_vars

(***************************************************************************)
(* Calls of runEdit (commands/edit.mjs) on a ticket with queued comments   *)
(* and link operations, for the field names and values a user may type.    *)
(* The values of `pending` carry their JavaScript type here: `jira edit`   *)
(* queues the string typed, the comment and link queues are arrays.        *)
(***************************************************************************)
JsString(chars) == [type |-> "string", chars |-> chars]
JsArray(items) == [type |-> "array", items |-> items]

\* The field names typed: two Jira fields, labels, and the two names under
\* which `pending` keeps its queues.
EditFields == {"summary", "status", "labels", "comments", "links"}
\* The values typed.
EditTexts == {<<"d">>, <<"+", "x">>, <<"x", ",", "y">>}

\* The queues queueComment and queueLink have built so far; absent when
\* nothing was queued.
QueuedComments ==
    {<<>>} \cup
    {<<JsArray(q)>> : q \in {<<[text |-> "c1", queued_at |-> 0]>>,
                             <<[text |-> "c2", queued_at |-> 0]>>,
                             <<[text |-> "c1", queued_at |-> 0],
                               [text |-> "c2", queued_at |-> 0]>>}}
QueuedLinks ==
    {<<>>,
     <<JsArray(<<[action |-> "add", type |-> "Blocks", inwardKey |-> "A-1",
                  outwardKey |-> "A-2", queued_at |-> 0]>>)>>}

queuesOf(comments, links) ==
    [k \in (IF IsSome(comments) THEN {"comments"} ELSE {}) \cup
           (IF IsSome(links) THEN {"links"} ELSE {}) |->
        IF k = "comments" THEN Val(comments) ELSE Val(links)]

\* The storage directory with the one ticket that has these queues.
storeWith(comments, links) ==
    [i \in {Id1} |->
        [key |-> "A-1", host |-> HostUrl, summary |-> "s0", status |-> "Open",
         updated |-> 0, labels |-> <<>>, stored_at |-> 0, comments |-> <<>>,
         offline |-> [EmptyOffline EXCEPT !.pending =
                        IF IsSome(comments) \/ IsSome(links)
                        THEN Some(queuesOf(comments, links)) ELSE None]]]

\* runEdit lines 58-75, for a field that is not a custom field: labels go
\* through handleLabelEdit, every other name is queued as typed.
runEdit(st, id, field, value) ==
    IF field = "labels" THEN handleLabelEdit(st, id, st[id], value)
    ELSE queueEdit(st, id, field, JsString(value))

InitEdit ==
    /\ AtRest
    /\ lib \in {[fn |-> "runEdit", st |-> storeWith(c, l), field |-> f,
                 value |-> v, result |-> None] :
                    c \in QueuedComments, l \in QueuedLinks,
                    f \in EditFields, v \in EditTexts}

RunEdit ==
    /\ lib.fn = "runEdit"
    /\ ~IsSome(lib.result)
    /\ lib' = [lib EXCEPT !.result = Some(runEdit(lib.st, Id1, lib.field, lib.value))]
    /\ UNCHANGED <<time, skew, remote, rlinks, redits, store, syncState, pull,
                   apply, runs, queued, torn, said, exitStatus>>

NextEdit == RunEdit

SpecEdit == InitEdit /\ [][NextEdit]_vars

(***************************************************************************)
(* Properties.                                                             *)
(***************************************************************************)
\* The remote snapshot fields of a stored ticket.
snapshotOf(ticket) ==
    [key |-> ticket.key, host |-> ticket.host, summary |-> ticket.summary,
     status |-> ticket.status, updated |-> ticket.updated, labels |-> ticket.labels]

\* The offline fields a save may set.
SyncFields == {"last_sync", "previous", "changes_since_read"}

\* The last entry of a sequence.
Last(q) == q[Len(q)]

\* C1: while a pull runs, every stored record keeps its pending, deleted and
\* tags (and every other offline field but last_sync, previous and
\* changes_since_read) from one step to the next, whatever the pull saves
\* and whatever the enrichment gave.
PullPreservesLocalState ==
    [][pull.pc # "idle" =>
        \A id \in DOMAIN store :
            /\ id \in DOMAIN store'
            /\ \A f \in DOMAIN EmptyOffline \ SyncFields :
                    store'[id].offline[f] = store[id].offline[f]]_vars

\* A pull has saved A-1 over a record with queued changes, a deletion marker
\* and tags.
PullSavedOverLocalState ==
    /\ pull.pc # "idle"
    /\ "A-1" \in SeqToSet(pull.out)
    /\ Id1 \in DOMAIN store
    /\ IsSome(store[Id1].offline.pending)
    /\ IsSome(store[Id1].offline.deleted)
    /\ IsSome(store[Id1].offline.tags)

\* The mutations queued in `pending`, in the order apply submits them.
mutationsOf(pending) ==
    LET comments == pendingList(pending, "comments")
        links == pendingList(pending, "links")
    IN  (IF "status" \in DOMAIN pending
         THEN <<[kind |-> "transition", value |-> pending["status"]]>> ELSE <<>>)
        \o (IF fieldUpdates(pending) # {}
            THEN <<[kind |-> "update", value |-> updateShown(pending),
                    fields |-> sentFields(pending)]>> ELSE <<>>)
        \o [n \in 1..Len(comments) |-> [kind |-> "comment", value |-> comments[n].text]]
        \o [n \in 1..Len(links) |->
                [kind |-> links[n].action, value |-> links[n].outwardKey,
                 type |-> links[n].type, inwardKey |-> links[n].inwardKey]]

\* C2: a record's queued changes are emptied only by the finalization step
\* of apply on that record, after every queued mutation (transition, field
\* update, comments, links) was accepted by the remote, and with the
\* re-fetched remote issue saved as the record's snapshot; no other step
\* (edit, comment, link, delete marker, mark, pull) empties them.
PendingClearedOnlyByFinal ==
    [][\A id \in DOMAIN store :
          (/\ IsSome(store[id].offline.pending)
           /\ id \in DOMAIN store'
           /\ ~IsSome(store'[id].offline.pending))
          => /\ apply.pc = "final"
             /\ apply.queue[apply.qi] = id
             /\ apply.log = mutationsOf(Val(store[id].offline.pending))
             /\ snapshotOf(store'[id]) = issueToStorage(issueOf(store[id].key), HostUrl)
             /\ Last(apply'.out) = [id |-> id, res |-> "ok"]]_vars

\* An apply has emptied the queue of A-1 after submitting three mutations,
\* one of them a comment.
PendingClearedAfterMutations ==
    /\ apply.pc \in {"ticket", "done"}
    /\ Len(apply.out) > 0
    /\ Last(apply.out) = [id |-> Id1, res |-> "ok"]
    /\ Id1 \in DOMAIN store
    /\ ~IsSome(store[Id1].offline.pending)
    /\ Len(apply.log) = 3
    /\ \E n \in 1..3 : apply.log[n].kind = "comment"

\* The issue the running pull saves in its next step, if it saves one.
pullSaving ==
    IF pull.pc = "items" /\ pull.i <= Len(pull.issues) THEN Some(pull.issues[pull.i])
    ELSE IF pull.pc = "byid" /\ pull.i <= Len(pull.ids) /\ remote[pull.ids[pull.i]].exists
         THEN Some(issueOf(pull.ids[pull.i]))
    ELSE None

\* C3: a pull that saves a record whose remote issue is what it was when the
\* record was last stored (no remote change since, and local commands run
\* only between pulls) leaves the record's snapshot fields and every
\* offline field but last_sync and changes_since_read as they were.
PullIdempotent ==
    [][(IsSome(pullSaving) /\ store' # store) =>
        LET issue == Val(pullSaving)
            id == generateId(HostUrl, issue.key)
        IN  (/\ id \in DOMAIN store
             /\ issue.summary = store[id].summary
             /\ issue.status = store[id].status
             /\ issue.updated = store[id].updated)
            => /\ snapshotOf(store'[id]) = snapshotOf(store[id])
               /\ \A f \in DOMAIN EmptyOffline \ {"last_sync", "changes_since_read"} :
                       store'[id].offline[f] = store[id].offline[f]]_vars

\* The second pull has saved A-1 again: the record was there before this
\* pull (it was marked as read), and the remote never changed.
PulledTwice ==
    /\ runs = 2
    /\ redits = 0
    /\ pull.pc = "byid"
    /\ pull.out = <<"A-1">>
    /\ IsSome(store[Id1].offline.last_read)
    /\ snapshotOf(store[Id1]) = issueToStorage(issueOf("A-1"), HostUrl)

\* The ticket whose apply ended last in the running apply, and its result.
lastApplied == Last(apply.out)

\* C4: when apply has completed a record with every remote call succeeding,
\* the record's queue is empty and its snapshot equals the remote issue as
\* re-fetched after the update, so it shows the queued field values.
RoundTripApply ==
    (/\ apply.pc \in {"ticket", "done"}
     /\ Len(apply.out) > 0
     /\ lastApplied.res = "ok"
     /\ lastApplied.id \in DOMAIN store)
    => LET id == lastApplied.id
           pending == pendingOf(Val(apply.ticket))
       IN  /\ ~IsSome(store[id].offline.pending)
           /\ snapshotOf(store[id]) = issueToStorage(issueOf(store[id].key), HostUrl)
           /\ "summary" \in DOMAIN pending => store[id].summary = pending["summary"]
           /\ "status" \in DOMAIN pending => store[id].status = pending["status"]

\* A queued summary edit of A-1 was applied and shows in the record.
EditApplied ==
    /\ apply.pc \in {"ticket", "done"}
    /\ Len(apply.out) > 0
    /\ lastApplied = [id |-> Id1, res |-> "ok"]
    /\ Id1 \in DOMAIN store
    /\ "summary" \in DOMAIN pendingOf(Val(apply.ticket))
    /\ store[Id1].summary = "s1"
    /\ remote["A-1"].summary = "s1"

\* C5: the cursor a pattern pull is about to write to the ledger is never
\* smaller than the cursor the ledger holds for the same pattern.
CursorNeverDecreases ==
    pull.pc \in {"pattern", "items"} =>
        \A k \in DOMAIN syncState \cap DOMAIN pull.mem :
            (IsSome(syncState[k]) /\ IsSome(pull.mem[k]))
                => Val(pull.mem[k]).t >= Val(syncState[k]).t

\* C6, as stated: every cursor of the ledger is a timestamp of the remote
\* clock.
CursorAlwaysRemote ==
    \A k \in DOMAIN syncState :
        IsSome(syncState[k]) => Val(syncState[k]).src = "remote"

\* The pull has just processed a pattern to its end without an error.
patternAdvanced == pull.pc = "pattern" /\ pull.prev = "advanced"

\* The cursor of the pattern the pull has just processed.
advancedCursor == Val(pull.mem[patternKey(SyncPatterns[pull.pi - 1])])

\* C6: the cursor a processed pattern gets is the `updated` value of one of
\* the items fetched for it, a timestamp of the remote clock, whenever an
\* item was fetched; it is the local start time of the pull only when none
\* was.
CursorRemoteUnlessEmpty ==
    patternAdvanced =>
        IF Len(pull.issues) > 0
        THEN /\ advancedCursor.src = "remote"
             /\ \E n \in 1..Len(pull.issues) : advancedCursor.t = pull.issues[n].updated
        ELSE advancedCursor.src = "local"

\* A pattern that fetched no item got a local time as its cursor, and one
\* that fetched an item got a remote one.
CursorFellBack ==
    /\ patternAdvanced
    /\ pull.pi = 3
    /\ Len(pull.issues) = 0
    /\ advancedCursor = LocalStamp(pull.start)
    /\ "k1" \in DOMAIN pull.mem
    /\ Val(pull.mem["k1"]).src = "remote"

\* C7: when a pull has processed a pattern without an error, the pattern's
\* cursor is the greatest `updated` among the items fetched for it in this
\* pull, or the start time of the pull when no item was fetched.
CursorAdvancement ==
    patternAdvanced =>
        IF Len(pull.issues) > 0
        THEN /\ advancedCursor.t \in {pull.issues[n].updated : n \in 1..Len(pull.issues)}
             /\ \A n \in 1..Len(pull.issues) : pull.issues[n].updated <= advancedCursor.t
        ELSE advancedCursor.t = pull.start

\* A pattern fetched two items, the newer one first, and its cursor is the
\* newer one's `updated`.
CursorIsGreatest ==
    /\ patternAdvanced
    /\ Len(pull.issues) = 2
    /\ pull.issues[1].updated > pull.issues[2].updated
    /\ advancedCursor.t = pull.issues[1].updated

\* C8: the remote never gets a queued comment twice.
NoCommentSentTwice ==
    \A k \in Keys :
        \A m, n \in 1..Len(remote[k].comments) :
            remote[k].comments[m] = remote[k].comments[n] => m = n

\* C9: an apply tries every record of its run, whatever fails, and a record
\* whose apply failed is still stored with its queued changes and deletion
\* marker as apply read them.
ApplyIsolatesFailures ==
    /\ apply.pc = "done" => [n \in 1..Len(apply.out) |-> apply.out[n].id] = apply.queue
    /\ (apply.pc \in {"ticket", "done"} /\ Len(apply.out) > 0 /\ lastApplied.res = "err")
          => /\ lastApplied.id \in DOMAIN store
             /\ store[lastApplied.id].offline.pending = Val(apply.ticket).offline.pending
             /\ store[lastApplied.id].offline.deleted = Val(apply.ticket).offline.deleted
    /\ apply.pc \in {"ticket", "done"} =>
          \A n \in 1..Len(apply.out) :
              apply.out[n].res = "err"
                  => /\ apply.out[n].id \in DOMAIN store
                     /\ hasPendingChanges(store[apply.out[n].id])

\* The apply of the first record failed and the second record was applied.
AppliedAfterFailure ==
    /\ apply.pc = "done"
    /\ Len(apply.out) = 2
    /\ apply.out[1].res = "err"
    /\ apply.out[2].res = "ok"

\* C10: at the end of a pull, every item the remote returned was saved or
\* was counted as failed on its own.
PullIsolatesFailures ==
    pull.pc = "done" => Len(pull.out) + pull.failed = pull.found

\* C11: a pull step that logs an enrichment warning for an item saves the
\* item all the same, with the enrichment that did succeed, counts it as
\* pulled and goes on with the next item.
EnrichmentFailureNotFatal ==
    [][(pull.pc \in {"items", "byid"} /\ pull' # pull /\ pull'.warned # {}) =>
        /\ IsSome(pullSaving)
        /\ LET issue == Val(pullSaving)
               key == issue.key
               got == [comments |-> Some(IF "comments" \in pull'.warned
                                         THEN <<>> ELSE remote[key].comments),
                       changelog |-> Some(IF "changelog" \in pull'.warned
                                          THEN {} ELSE remote[key].histories)]
           IN  /\ store' = saveIssue(store, issue, HostUrl, got, LocalNow)
               /\ pull'.out = Append(pull.out, key)
               /\ pull'.failed = pull.failed
               /\ pull'.pc = pull.pc
               /\ pull'.i = pull.i + 1]_vars

\* A pattern pull has saved A-1 without its comments, which could not be
\* fetched, and with the change summary computed from its changelog.
SavedWithoutComments ==
    /\ pull.pc = "items"
    /\ pull.warned = {"comments"}
    /\ Last(pull.out) = "A-1"
    /\ remote["A-1"].comments # <<>>
    /\ store[Id1].comments = <<>>
    /\ IsSome(store[Id1].offline.last_read)

\* C12: every ticket file holds a whole record, the old one or the new one,
\* whenever a command has stopped, however it stopped.
RecordWritesAtomic ==
    \A id \in DOMAIN store : readable(store, id)

\* C13: a pattern's cursor is set in the loaded ledger only once every issue
\* fetched for the pattern was saved; a pattern that failed keeps its cursor;
\* and the ledger file changes only when a pull has gone through all its
\* patterns, so a pull terminated earlier leaves it as it was.
CursorAfterItems ==
    [][/\ (/\ pull.pc \in {"pattern", "items"}
           /\ pull'.pc \in {"pattern", "items", "done"}
           /\ pull'.mem # pull.mem) =>
            /\ pull.pc = "items"
            /\ pull.i > Len(pull.issues)
            /\ Len(pull.out) >= Len(pull.issues)
            /\ \A n \in 1..Len(pull.issues) :
                  LET issue == pull.issues[n]
                      id == generateId(HostUrl, issue.key)
                  IN  /\ pull.out[Len(pull.out) - Len(pull.issues) + n] = issue.key
                      /\ readable(store, id)
                      /\ snapshotOf(store[id]) = issueToStorage(issue, HostUrl)
       /\ (/\ pull.pc \in {"pattern", "items"}
           /\ pull'.pc \in {"pattern", "items"}
           /\ pull'.pi = pull.pi + 1
           /\ pull'.prev = "error") =>
            pull'.mem = pull.mem
       /\ syncState' # syncState =>
            /\ pull.pc = "pattern"
            /\ pull.pi > Len(SyncPatterns)
            /\ syncState' = pull.mem
       /\ (pull.pc \in {"pattern", "items"} /\ pull'.pc = "idle") =>
            syncState' = syncState]_vars

\* C13 witness: the pattern's cursor was set after both of its issues were
\* saved, and the ledger file does not hold it yet.
CursorSetAfterTwoItems ==
    /\ pull.pc = "pattern"
    /\ pull.prev = "advanced"
    /\ Len(pull.issues) = 2
    /\ pull.mem # syncState
    /\ \A n \in 1..2 : generateId(HostUrl, pull.issues[n].key) \in DOMAIN store

\* C14: when the remote issue was modified after the record's last sync,
\* apply prints the warning and goes on with the step it would take without
\* it, changing nothing; and a record applied under the warning ends like any
\* other: every queued mutation was sent, in order, the re-fetched issue is
\* saved and the queue is cleared.
DivergenceNonBlocking ==
    [][/\ (/\ apply.pc = "ticket"
           /\ apply'.pc # "idle"
           /\ apply' # apply
           /\ apply.qi <= Len(apply.queue)
           /\ ~IsSome(store[apply.queue[apply.qi]].offline.deleted)
           /\ remote[store[apply.queue[apply.qi]].key].exists
           /\ diverged(store[apply.queue[apply.qi]])
           /\ apply'.warn # "unfetched") =>
            /\ apply'.warn = "diverged"
            /\ apply'.pc = nextStage(pendingOf(store[apply.queue[apply.qi]]), 1)
            /\ apply'.out = apply.out
            /\ UNCHANGED <<remote, rlinks, store>>
       /\ (/\ apply.pc \notin {"idle", "ticket", "done"}
           /\ apply.warn = "diverged"
           /\ Len(apply'.out) > Len(apply.out)
           /\ Last(apply'.out).res = "ok") =>
            /\ apply.log = mutationsOf(applyPending)
            /\ store' = clearPending(
                           saveIssue(store, issueOf(applyKey), HostUrl,
                                     [comments |-> None, changelog |-> None], LocalNow),
                           apply.queue[apply.qi])]_vars

\* C14 witness: A-1 was applied with success under the divergence warning.
AppliedDespiteDivergence ==
    /\ apply.pc \in {"ticket", "done"}
    /\ Len(apply.out) > 0
    /\ lastApplied = [id |-> Id1, res |-> "ok"]
    /\ apply.warn = "diverged"
    /\ apply.log # <<>>
    /\ Id1 \in DOMAIN store
    /\ ~IsSome(store[Id1].offline.pending)

\* C15: for a record marked deleted, apply sends the remote delete and
\* nothing else: when the delete succeeds the record's file is removed in
\* the same step and none of its queued changes is sent; when it fails the
\* record, marker included, and the remote stay as they were.  A record's
\* file is never removed without the remote delete having succeeded.
DeleteRemoteFirst ==
    [][/\ (/\ apply.pc = "ticket"
           /\ apply'.pc # "idle"
           /\ apply' # apply
           /\ apply.qi <= Len(apply.queue)
           /\ IsSome(store[apply.queue[apply.qi]].offline.deleted)) =>
            LET id == apply.queue[apply.qi]
                key == store[id].key
            IN  /\ Len(apply'.out) = Len(apply.out) + 1
                /\ \/ /\ Last(apply'.out) = [id |-> id, res |-> "ok"]
                      /\ remote[key].exists /\ ~remote'[key].exists
                      /\ \A k \in Keys \ {key} : remote'[k] = remote[k]
                      /\ remote'[key].summary = remote[key].summary
                      /\ remote'[key].status = remote[key].status
                      /\ remote'[key].comments = remote[key].comments
                      /\ id \notin DOMAIN store'
                      /\ \A i \in DOMAIN store \ {id} : i \in DOMAIN store' /\ store'[i] = store[i]
                      /\ apply'.log = <<[kind |-> "delete", value |-> key]>>
                   \/ /\ Last(apply'.out) = [id |-> id, res |-> "err"]
                      /\ apply'.log = <<>>
                      /\ UNCHANGED <<remote, rlinks, store>>
       /\ \A id \in DOMAIN store :
            id \notin DOMAIN store' =>
                /\ apply.pc = "ticket"
                /\ IsSome(store[id].offline.deleted)
                /\ remote[store[id].key].exists
                /\ ~remote'[store[id].key].exists]_vars

\* C15 witness: A-1, marked deleted with a summary edit queued, was deleted
\* at the remote and locally, and the edit never went out.
DeletedWithQueuedEdit ==
    /\ apply.pc \in {"ticket", "done"}
    /\ Len(apply.out) > 0
    /\ lastApplied = [id |-> Id1, res |-> "ok"]
    /\ Id1 \notin DOMAIN store
    /\ ~remote["A-1"].exists
    /\ remote["A-1"].summary = "s0"
    /\ IsSome(Val(apply.ticket).offline.deleted)
    /\ "summary" \in DOMAIN pendingOf(Val(apply.ticket))

\* The transitions of the issue being applied that lead to the requested
\* state, and those that lead to it or bear its name, ignoring case.
toRequested ==
    LET ts == Transitions(remote[applyKey].status)
    IN  {n \in 1..Len(ts) : toLowerCase(ts[n].to) = toLowerCase(applyPending["status"])}
namedOrToRequested ==
    LET ts == Transitions(remote[applyKey].status)
    IN  {n \in 1..Len(ts) :
            \/ toLowerCase(ts[n].to) = toLowerCase(applyPending["status"])
            \/ toLowerCase(ts[n].name) = toLowerCase(applyPending["status"])}

\* C16 as claimed: the transition apply executes for a queued status leads to
\* the state of that name, ignoring case, and a status no transition leads
\* to is never executed.
StatusByTargetState ==
    [][(/\ apply.pc = "status"
        /\ apply'.pc # "idle"
        /\ Len(apply'.log) > Len(apply.log)) =>
            /\ toRequested # {}
            /\ toLowerCase(remote'[applyKey].status) = toLowerCase(applyPending["status"])]_vars

\* C16 as amended: a queued status is executed as the first transition whose
\* name or target state equals it ignoring case, and as nothing else; the
\* field update never changes the status; when no transition matches, the
\* record fails with the list of the transitions, nothing was sent for it
\* and its file is as it was.
StatusByTransition ==
    [][/\ (apply.pc = "status" /\ apply'.pc # "idle" /\ apply' # apply) =>
            LET ts == Transitions(remote[applyKey].status)
                id == apply.queue[apply.qi]
            IN  /\ apply.log = <<>>
                /\ \/ /\ namedOrToRequested # {}
                      /\ LET first == CHOOSE n \in namedOrToRequested :
                                          \A m \in namedOrToRequested : n <= m
                         IN  remote'[applyKey] =
                                touched([remote[applyKey] EXCEPT !.status = ts[first].to], "status")
                      /\ apply'.log = <<[kind |-> "transition", value |-> applyPending["status"]]>>
                      /\ apply'.out = apply.out
                      /\ UNCHANGED <<rlinks, store>>
                   \/ /\ Last(apply'.out) = [id |-> id, res |-> "err"]
                      /\ Len(apply'.out) = Len(apply.out) + 1
                      /\ apply'.log = <<>>
                      /\ UNCHANGED <<remote, rlinks, store>>
                      /\ IsSome(apply'.unavailable) =>
                            /\ namedOrToRequested = {}
                            /\ Val(apply'.unavailable) = [n \in 1..Len(ts) |-> ts[n].name]
       /\ (apply.pc \notin {"idle", "status"} /\ apply'.pc # "idle" /\ apply.qi = apply'.qi) =>
            \A k \in Keys : remote'[k].status = remote[k].status]_vars

\* C16 witness: the queued status "done" was executed as the transition to
\* Done, before the summary queued with it was sent.
StatusAppliedIgnoringCase ==
    /\ apply.pc = "update"
    /\ IsSome(apply.ticket)
    /\ "status" \in DOMAIN applyPending
    /\ applyPending["status"] = "done"
    /\ apply.log = <<[kind |-> "transition", value |-> "done"]>>
    /\ remote[applyKey].status = "Done"

\* C17: a comment command appends its comment to the record's queued
\* comments; apply posts the queued comments one by one in the order of the
\* queue, and none of them is posted to the remote a second time.
CommentsFIFO ==
    [][/\ \A id \in DOMAIN store :
            (/\ apply.pc = "idle" /\ pull.pc = "idle"
             /\ id \in DOMAIN store'
             /\ pendingList(pendingOf(store'[id]), "comments") #
                    pendingList(pendingOf(store[id]), "comments")) =>
                LET before == pendingList(pendingOf(store[id]), "comments")
                    after == pendingList(pendingOf(store'[id]), "comments")
                IN  /\ Len(after) = Len(before) + 1
                    /\ SubSeq(after, 1, Len(before)) = before
                    /\ Last(after).queued_at = LocalNow
       /\ (apply.pc = "comments" /\ apply'.pc # "idle" /\ Len(apply'.log) > Len(apply.log)) =>
            LET comments == pendingList(applyPending, "comments")
                sent == Cardinality({n \in 1..Len(apply.log) : apply.log[n].kind = "comment"})
            IN  /\ remote'[applyKey].comments =
                        Append(remote[applyKey].comments, comments[sent + 1].text)
                /\ comments[sent + 1].text \notin SeqToSet(remote[applyKey].comments)]_vars

\* A step that is the label edit `value` on A-1.
labelEdited(value) ==
    /\ pull.pc = "idle" /\ apply.pc = "idle"
    /\ queued' = queued + 1
    /\ readable(store, Id1)
    /\ store' = handleLabelEdit(store, Id1, store[Id1], value)

\* The labels the edits of A-1 have queued, and the record's own.
pendingLabels(ticket) == SeqToSet(pendingList(pendingOf(ticket), "labels"))
recordLabels(ticket) == SeqToSet(ticket.labels)

\* C18 as claimed: a label edit works on the queued labels joined with the
\* record's labels: +item leaves them plus item, -item leaves them minus
\* item, a list replaces them.
LabelEditOnUnion ==
    [][\A value \in LabelValues :
          labelEdited(value) =>
            LET union == pendingLabels(store[Id1]) \cup recordLabels(store[Id1])
                after == pendingLabels(store'[Id1])
            IN  /\ "labels" \in DOMAIN pendingOf(store'[Id1])
                /\ value[1] = "+" => after = union \cup {Tail(value)}
                /\ value[1] = "-" => after = union \ {Tail(value)}
                /\ value[1] \notin {"+", "-"} => after = {LabelX, LabelY}]_vars

\* C18 as amended: a label edit works on the queued labels when the record
\* has queued labels, and on the record's labels otherwise: +item leaves
\* them plus item, -item leaves them minus item, a list replaces them; the
\* record's own labels, which a pull may have changed, count only while no
\* labels are queued.
LabelEditOnPendingElseRecord ==
    [][\A value \in LabelValues :
          labelEdited(value) =>
            LET base == IF "labels" \in DOMAIN pendingOf(store[Id1])
                        THEN pendingLabels(store[Id1])
                        ELSE recordLabels(store[Id1])
                after == pendingLabels(store'[Id1])
            IN  /\ "labels" \in DOMAIN pendingOf(store'[Id1])
                /\ value[1] = "+" => after = base \cup {Tail(value)}
                /\ value[1] = "-" => after = base \ {Tail(value)}
                /\ value[1] \notin {"+", "-"} =>
                        pendingOf(store'[Id1])["labels"] = <<LabelX, LabelY>>
                /\ snapshotOf(store'[Id1]) = snapshotOf(store[Id1])]_vars

\* C18 witness: labels were queued, then a pull brought in a label of the
\* remote that is not among them.
QueuedLabelsMissRemoteLabel ==
    /\ Id1 \in DOMAIN store
    /\ pull.pc = "idle"
    /\ "labels" \in DOMAIN pendingOf(store[Id1])
    /\ LabelX \in pendingLabels(store[Id1])
    /\ LabelY \in recordLabels(store[Id1])
    /\ LabelY \notin pendingLabels(store[Id1])
    /\ queued >= 2

\* A list without two equal entries.
noDuplicate(labels) ==
    \A m, n \in 1..Len(labels) : labels[m] = labels[n] => m = n

\* C19 as claimed: after the edit +x, the edit -x leaves the pending labels
\* equal, as a set, to the labels before the two edits, with no duplicate.
PlusThenMinusRestores ==
    [][labelEdited(<<"+", "x">>) =>
          LET before == currentLabelsOf(store[Id1])
              final == editedLabels(store'[Id1], <<"-", "x">>)
          IN  /\ SeqToSet(final) = SeqToSet(before)
              /\ noDuplicate(final)]_vars

\* C19 as amended: after the edit +x, the edit -x leaves the pending labels
\* as the labels were before the two edits when x was not among them, and
\* without x when it was; in both cases without a duplicate.
PlusThenMinusDropsLabel ==
    [][labelEdited(<<"+", "x">>) =>
          LET before == currentLabelsOf(store[Id1])
              final == editedLabels(store'[Id1], <<"-", "x">>)
          IN  /\ LabelX \notin SeqToSet(before) => final = before
              /\ LabelX \in SeqToSet(before) =>
                    /\ SeqToSet(final) = SeqToSet(before) \ {LabelX}
                    /\ Len(final) = Len(before) - 1
              /\ noDuplicate(final)
              /\ handleLabelEdit(store', Id1, store'[Id1], <<"-", "x">>)[Id1].labels
                    = store[Id1].labels]_vars

\* C19 witness: +x and then -x were queued on a record whose only label is
\* y, and y is what is queued.
PlusMinusQueued ==
    /\ Id1 \in DOMAIN store
    /\ pull.pc = "idle"
    /\ queued = 2
    /\ store[Id1].labels = <<LabelY>>
    /\ "labels" \in DOMAIN pendingOf(store[Id1])
    /\ pendingOf(store[Id1])["labels"] = <<LabelY>>

\* C20: the delete command on a marked record prints 'Already marked' and
\* leaves every file as it is, the marker with its first timestamp; on an
\* unmarked record it prints 'Marked' and sets only the marker, to the time
\* of the command; with --clear it prints 'Cleared' and removes only the
\* marker, or prints 'Not marked' and leaves every file as it is.
DeleteMarkerIdempotent ==
    [][(pull.pc = "idle" /\ queued' = queued + 1) =>
          LET id == generateId(HostUrl, said'.label)
              text == said'.text
          IN  /\ id \in DOMAIN store
              /\ IF IsSome(store[id].offline.deleted)
                 THEN \/ /\ text = "Already marked for deletion"
                         /\ store' = store
                      \/ /\ text = "Cleared deletion"
                         /\ store' = [store EXCEPT ![id].offline.deleted = None]
                 ELSE \/ /\ text = "Marked for deletion"
                         /\ store' = [store EXCEPT ![id].offline.deleted = Some(LocalNow)]
                      \/ /\ text = "Not marked for deletion"
                         /\ store' = store]_vars

\* C20 witness: A-1 was marked at time 0 and marked again later; the
\* command said so and the marker still shows time 0.
MarkedTwice ==
    /\ said = [label |-> "A-1", text |-> "Already marked for deletion"]
    /\ Id1 \in DOMAIN store
    /\ IsSome(store[Id1].offline.deleted)
    /\ Val(store[Id1].offline.deleted) < LocalNow

\* The links queued on a stored ticket.
pendingLinks(st, id) == pendingList(pendingOf(st[id]), "links")

\* C21: a link command between tickets of different hosts fails, with exit
\* status 1, and leaves every ticket as it is; between tickets of one host
\* it puts one entry at the end of the first ticket's queued links, with the
\* action, the type and both keys, and changes nothing else.
LinkWithinHost ==
    [][\A id1, id2 \in DOMAIN store : \A isRemove \in BOOLEAN :
          (/\ id1 # id2
           /\ Len(pendingLinks(store, id1)) < MaxLinks
           /\ Link(id1, id2, isRemove)) =>
            IF store[id1].host # store[id2].host
            THEN /\ store' = store
                 /\ exitStatus' = 1
            ELSE /\ exitStatus' = 0
                 /\ Len(pendingLinks(store', id1)) = Len(pendingLinks(store, id1)) + 1
                 /\ SubSeq(pendingLinks(store', id1), 1, Len(pendingLinks(store, id1)))
                        = pendingLinks(store, id1)
                 /\ Last(pendingLinks(store', id1)) =
                        [action |-> IF isRemove THEN "remove" ELSE "add",
                         type |-> LinkType,
                         inwardKey |-> store[id1].key,
                         outwardKey |-> store[id2].key,
                         queued_at |-> LocalNow]
                 /\ \A i \in DOMAIN store \ {id1} : store'[i] = store[i]
                 /\ DOMAIN store' = DOMAIN store
                 /\ snapshotOf(store'[id1]) = snapshotOf(store[id1])
                 /\ \A f \in DOMAIN store[id1].offline \ {"pending"} :
                        store'[id1].offline[f] = store[id1].offline[f]
                 /\ \A k \in DOMAIN pendingOf(store[id1]) \ {"links"} :
                        pendingOf(store'[id1])[k] = pendingOf(store[id1])[k]]_vars

\* C21 witness: a link to the other host's ticket was refused after a link
\* to A-2 and then an unlink had been queued on A-1.
LinkRefusedAfterTwoQueued ==
    /\ exitStatus = 1
    /\ Len(pendingLinks(store, Id1)) = 2
    /\ pendingLinks(store, Id1)[1].action = "add"
    /\ pendingLinks(store, Id1)[2].action = "remove"
    /\ pendingLinks(store, OtherId) = <<>>

\* The stored ids that have the cleaned input as a case-insensitive prefix.
candidates(call) ==
    {d \in {stripMd(f) : f \in ticketFiles(call.dir)} :
        startsWith(lowerCase(d), lowerCase(trim(stripMd(call.input))))}

\* C22: for every store and every input that is not an issue key, resolve
\* returns a record exactly when one stored id has the input as a
\* case-insensitive prefix, and that record is the one of this id; it fails
\* with NotFound when no stored id has, and with Ambiguous when two or more
\* have, the error naming each conflicting candidate by a prefix of its id
\* that no other candidate starts with.
ResolveByPrefix ==
    (/\ lib.fn = "resolveId"
     /\ IsSome(lib.result)
     /\ ~isJiraKey(trim(stripMd(lib.input)))) =>
        LET r == Val(lib.result)
            cands == candidates(lib)
        IN  /\ r.ok <=> Cardinality(cands) = 1
            /\ r.ok => r.id \in cands
            /\ cands = {} => ~r.ok /\ r.error = "NotFound"
            /\ Cardinality(cands) >= 2 =>
                /\ ~r.ok
                /\ r.error = "Ambiguous"
                /\ {stripMd(f) : f \in DOMAIN r.ids} = cands
                /\ \A f \in DOMAIN r.ids :
                       /\ startsWith(stripMd(f), r.ids[f])
                       /\ \A g \in DOMAIN r.ids \ {f} :
                              ~startsWith(stripMd(g), r.ids[f])

\* The moment, in real time, at which a clock showed t.
localToReal(t) == t - (IF skew > 0 THEN skew ELSE 0)
remoteToReal(t) == t - (IF skew < 0 THEN 0 - skew ELSE 0)

\* This step of a pull saved the issue k.
savedByPull(k) ==
    /\ pull.pc \in {"items", "byid"}
    /\ pull'.pc = pull.pc
    /\ pull'.i = pull.i + 1
    /\ Len(pull'.out) = Len(pull.out) + 1
    /\ Last(pull'.out) = k

\* This step of a pull saved the issue k, with its changelog fetched.
savedWithChangelog(k) == savedByPull(k) /\ "changelog" \notin pull'.warned

\* C23: if a record was marked read and the remote status changed later (in
\* real time), a save of the record yields a changes_since_read whose
\* namedFields includes "status", whatever the offset between the local and
\* the remote clock.
StatusChangeAfterReadShown ==
    [][\A k \in Keys :
        LET id == generateId(HostUrl, k)
        IN  (/\ savedWithChangelog(k)
             /\ id \in DOMAIN store
             /\ IsSome(store[id].offline.last_read)
             /\ \E h \in remote[k].histories :
                    /\ h.field = "status"
                    /\ remoteToReal(h.created) >
                           localToReal(Val(store[id].offline.last_read))) =>
                /\ IsSome(store'[id].offline.changes_since_read)
                /\ "status" \in Val(store'[id].offline.changes_since_read).namedFields]_vars

\* C24: when the remote issue has not changed since the record was marked
\* read, every save leaves changes_since_read null, also when an earlier
\* pull failed to fetch the comments.
NoChangeNoSummary ==
    [][\A k \in Keys :
        LET id == generateId(HostUrl, k)
        IN  (/\ savedByPull(k)
             /\ id \in DOMAIN store
             /\ IsSome(store[id].offline.last_read)
             /\ remoteToReal(remote[k].updated) <
                    localToReal(Val(store[id].offline.last_read))) =>
                store'[id].offline.changes_since_read = None]_vars

\* C25: in every state the program reaches, a stored record without
\* last_read has no previous snapshot; marking a record read sets both
\* last_read (to now) and previous (to the record's tracked fields).
NoPreviousWithoutLastRead ==
    [][/\ \A id \in DOMAIN store' :
            ~IsSome(store'[id].offline.last_read) =>
                store'[id].offline.previous = None
       /\ \A id \in DOMAIN store :
            Mark(id, FALSE) =>
                /\ store'[id].offline.last_read = Some(LocalNow)
                /\ store'[id].offline.previous =
                       Some([status |-> store[id].status,
                             summary |-> store[id].summary,
                             commentCount |-> Len(store[id].comments)])]_vars

\* A record marked read, then unread, then saved by a pull.
UnreadAgainAndPulled ==
    /\ Id1 \in DOMAIN store
    /\ queued = 2
    /\ runs = 2
    /\ pull.pc = "idle"
    /\ ~IsSome(store[Id1].offline.last_read)
    /\ store[Id1].status = "Done"

\* The base filter without its ordering clause, and the ordering clause.
filterOf(jql) ==
    IF orderingStart(jql) = 0 THEN jql ELSE SubSeq(jql, 1, orderingStart(jql) - 1)
orderingOf(jql) ==
    IF orderingStart(jql) = 0 THEN <<>> ELSE SubSeq(jql, orderingStart(jql), Len(jql))

\* C26: for every base filter expression, with a cursor and no full refresh
\* the query sent is the base filter without its ordering clause, in
\* parentheses, AND `updated >= <cursor>`, followed by the ordering clause of
\* the base expression when it has one; without a cursor, or on a full
\* refresh, the base expression is sent unchanged.
IncrementalQueryKeepsOrdering ==
    (lib.fn = "incrementalJql" /\ IsSome(lib.result)) =>
        Val(lib.result) =
            IF IsSome(lib.lastSync) /\ ~lib.forceFull
            THEN <<"(">> \o filterOf(lib.baseJql) \o
                 <<")", "AND", "updated", ">=",
                   ToString(formattedDate(Val(lib.lastSync)))>> \o
                 orderingOf(lib.baseJql)
            ELSE lib.baseJql

\* C27: whatever the cap L and the pages the server answers, the paged
\* search never asks for a page larger than L minus the number of issues
\* it has, and returns at most L issues; without a cap it returns, with all
\* it fetched, exactly when the issues fetched reach the total the server
\* reports, and asks for another page until then.
PagesWithinCap ==
    [][SearchPage =>
        /\ lib.limit # 0 =>
              /\ lib'.asked <= lib.limit - Len(lib.allIssues)
              /\ lib'.asked >= 1
              /\ IsSome(lib'.result) => Len(Val(lib'.result)) <= lib.limit
        /\ lib.limit = 0 =>
              /\ IsSome(lib'.result) <=> lib.startAt + lib'.got >= lib'.total
              /\ IsSome(lib'.result) => Val(lib'.result) = lib'.allIssues
              /\ ~IsSome(lib'.result) => lib'.startAt = Len(lib'.allIssues)]_vars

\* A capped search that took two pages and dropped what the server sent
\* beyond the cap.
CappedSearchCutToLimit ==
    /\ lib.fn = "searchAll"
    /\ lib.limit = MaxLimit
    /\ IsSome(lib.result)
    /\ lib.startAt > 0
    /\ Len(lib.allIssues) > lib.limit
    /\ Len(Val(lib.result)) = lib.limit

\* The records of the store a plan is about: those with a non-empty
\* `pending` or a deletion marker; and those of them without the marker.
affected(st) ==
    {id \in DOMAIN st :
        \/ IsSome(st[id].offline.deleted)
        \/ IsSome(st[id].offline.pending) /\ DOMAIN Val(st[id].offline.pending) # {}}
affectedKept(st) == {id \in affected(st) : ~IsSome(st[id].offline.deleted)}
fieldEntries(ticket) == DOMAIN pendingOf(ticket) \ {"comments", "links"}

\* C28: the counts of a plan are those of the store it is computed on:
\* records affected = records with a non-empty `pending` or a deletion
\* marker; deletions = records with a deletion marker; and over the affected
\* records without the marker, field updates = pending entries other than
\* comments and links, comments = queued comments, link changes = queued
\* link operations.  Computing the plan changes no record and no cursor.
PlanCountsTheQueue ==
    [][Plan =>
        /\ store' = store
        /\ syncState' = syncState
        /\ lib'.counts.tickets = Cardinality(affected(store))
        /\ lib'.counts.deleteCount =
               Cardinality({id \in DOMAIN store : IsSome(store[id].offline.deleted)})
        /\ lib'.counts.updateCount =
               sumOver(affectedKept(store),
                       [id \in affectedKept(store) |-> Cardinality(fieldEntries(store[id]))])
        /\ lib'.counts.commentCount =
               sumOver(affectedKept(store),
                       [id \in affectedKept(store) |-> Len(pendingList(pendingOf(store[id]), "comments"))])
        /\ lib'.counts.linkCount =
               sumOver(affectedKept(store),
                       [id \in affectedKept(store) |-> Len(pendingLinks(store, id))])]_vars

\* A plan of a store where A-2 is marked for deletion with an edit queued
\* and A-1 has a comment queued.
PlanPassesOverDeleted ==
    /\ lib.fn = "runPlan"
    /\ lib.counts = planCounts(store)
    /\ lib.counts.tickets = 2
    /\ lib.counts.deleteCount = 1
    /\ lib.counts.updateCount = 0
    /\ lib.counts.commentCount = 1
    /\ \E id \in Ids \ {Id1} :
          /\ IsSome(store[id].offline.deleted)
          /\ "summary" \in DOMAIN pendingOf(store[id])

\* C29: a pull or an apply in which at least one item failed outright exits
\* with a non-zero status; a run in which every item succeeded, whatever
\* the warnings, exits with status zero.
FailedRunExitsNonZero ==
    [][/\ (apply.pc = "done" /\ apply'.pc = "idle") =>
              (exitStatus' # 0 <=>
                  \E n \in 1..Len(apply.out) : apply.out[n].res = "err")
       /\ (pull.pc = "done" /\ pull'.pc = "idle") =>
              (exitStatus' # 0 <=> pull.failed > 0)]_vars

\* C30: each pattern of a host has its own cursor: whatever the text and the
\* length of two different patterns, the pull of one leaves the cursor of
\* the other as it is, and reads no cursor when this pattern was not pulled
\* before.
OwnCursorPerPattern ==
    [][\A i \in 1..2 :
          (lib.fn = "pullPattern" /\ PullPattern(i)) =>
              LET other == cacheKey(lib.patterns[3 - i])
              IN  /\ cursorOf(syncState', other) = cursorOf(syncState, other)
                  /\ i \notin lib.pulled => lib'.lastSync = None]_vars

\* The search of the next pattern has answered in this step.
searched == pull.pc = "pattern" /\ pull'.pc = "items"

holds(jql, part) ==
    \E n \in 0..(Len(jql) - Len(part)) : SubSeq(jql, n + 1, n + Len(part)) = part

\* C32: a pattern that gives a project and a jql filter is pulled with a
\* query that holds the project restriction and the filter, joined by AND;
\* a pattern that gives one of the two is pulled with that one alone.
ProjectAndJqlTogether ==
    (lib.fn = "baseJql" /\ IsSome(lib.result)) =>
        LET pattern == lib.pattern
            query == Val(lib.result)
            project == <<"project", "=", Val(pattern.project)>>
        IN  /\ (IsSome(pattern.project) /\ IsSome(pattern.jql)) =>
                  /\ IsSome(query)
                  /\ holds(Val(query), project)
                  /\ holds(Val(query), Val(pattern.jql))
                  /\ holds(Val(query), <<"AND">>)
            /\ (IsSome(pattern.project) /\ ~IsSome(pattern.jql)) =>
                  query = Some(project)
            /\ (~IsSome(pattern.project) /\ IsSome(pattern.jql)) =>
                  query = pattern.jql

\* C33: apply completes under retry.  Between two commands, every record
\* with a queued status change can still have it applied by an apply whose
\* remote calls all succeed: the remote issue offers a transition that
\* matches the queued status, also after an attempt that failed when the
\* transition had been executed.  (Where it does not, every later apply of
\* the record throws at the transition lookup and `pending` is never
\* cleared.)
RetryCanComplete ==
    (pull.pc = "idle" /\ apply.pc = "idle") =>
        \A id \in DOMAIN store :
            (/\ readable(store, id)
             /\ ~IsSome(store[id].offline.deleted)
             /\ "status" \in DOMAIN pendingOf(store[id])
             /\ remote[store[id].key].exists) =>
                IsSome(findTransition(Transitions(remote[store[id].key].status),
                                      pendingOf(store[id])["status"]))

\* C34: incremental pulls never skip an update for good.  Between two
\* commands, every existing remote issue is stored with a snapshot at least
\* as new as its last update, or the next incremental search of some pattern
\* still matches it: the pattern has no cursor, or the issue was updated at
\* or after the date the cursor gives.  (An issue for which neither holds is
\* found by no later incremental pull until it is updated again.)
NoUpdateSkippedForGood ==
    (pull.pc = "idle" /\ apply.pc = "idle") =>
        \A k \in Keys :
            remote[k].exists =>
                \/ /\ readable(store, generateId(HostUrl, k))
                   /\ store[generateId(HostUrl, k)].updated >= remote[k].updated
                \/ \E n \in 1..Len(SyncPatterns) :
                      k \in Matching(SyncPatterns[n],
                                     cursorOf(syncState, patternKey(SyncPatterns[n])),
                                     FALSE)

\* The number of new remote comments the record's summary of remote changes
\* reports; 0 when the summary is null or the file is absent.
commentsReported(st, id) ==
    IF readable(st, id) /\ IsSome(st[id].offline.changes_since_read)
    THEN Val(st[id].offline.changes_since_read).comments ELSE 0

\* pullSingleTicket has fetched the issue with its comments and its
\* changelog, no call failing, and saved it.
pulledWhole(k) ==
    /\ pull.pc = "byid"
    /\ pull'.out = Append(pull.out, k)
    /\ pull'.warned = {}

\* C35: a remote comment the user has not acknowledged stays reported.  A
\* pull of a record whose `changes_since_read` counts new remote comments
\* leaves `changes_since_read` non-null and counting at least as many (only
\* `jira mark` may take them away).
UnreadCommentStaysReported ==
    [][(pulledWhole("A-1") /\ commentsReported(store, Id1) > 0) =>
          commentsReported(store', Id1) >= commentsReported(store, Id1)]_vars

\* C36: a successful apply keeps the record's cached comments in step with
\* the remote.  The record saved by apply's finalization holds the comment
\* list of the remote issue.
ApplySavesRemoteComments ==
    [][(apply.pc = "final" /\ store' # store) =>
          store'[apply.queue[apply.qi]].comments =
              remote[store[apply.queue[apply.qi]].key].comments]_vars

\* C37: queuing a field edit changes only that field's entry in `pending`.
\* Whatever field name is typed, the queue of comments and the queue of
\* link operations are after the edit what they were before it: the same
\* array, or absent as before.
EditKeepsQueues ==
    (lib.fn = "runEdit" /\ IsSome(lib.result)) =>
        LET before == pendingOf(lib.st[Id1])
            after == pendingOf(Val(lib.result)[Id1])
        IN  \A k \in {"comments", "links"} :
                IF k \in DOMAIN before
                THEN k \in DOMAIN after /\ after[k] = before[k]
                ELSE k \notin DOMAIN after

\* The remote mutations in the log of an applied ticket, in the shape of the
\* plan's listing: the fields written (a transition is the change of
\* `status`), the comments posted and the link operations, both in order.
entriesOf(log, kinds) == SelectSeq(log, LAMBDA e : e.kind \in kinds)
appliedFields(log) ==
    LET transitions == entriesOf(log, {"transition"})
        updates == entriesOf(log, {"update"})
        written == UNION {DOMAIN updates[n].fields : n \in 1..Len(updates)}
    IN  [f \in (IF Len(transitions) > 0 THEN {"status"} ELSE {}) \cup written |->
            IF f = "status" /\ Len(transitions) > 0 THEN transitions[1].value
            ELSE updates[CHOOSE n \in 1..Len(updates) : f \in DOMAIN updates[n].fields].fields[f]]
applied(log) ==
    LET comments == entriesOf(log, {"comment"})
        links == entriesOf(log, {"add", "remove"})
    IN  [deleted |-> Len(entriesOf(log, {"delete"})) > 0,
         fields |-> appliedFields(log),
         comments |-> [n \in 1..Len(comments) |-> comments[n].value],
         links |-> [n \in 1..Len(links) |->
                      [action |-> links[n].kind, inwardKey |-> links[n].inwardKey,
                       type |-> links[n].type, outwardKey |-> links[n].value]],
         calls |-> [transition |-> Len(entriesOf(log, {"transition"})),
                    update |-> Len(entriesOf(log, {"update"})),
                    delete |-> Len(entriesOf(log, {"delete"}))]]

\* The remote calls that carry out the plan's listing of a ticket: one
\* deletion, or at most one transition and one field update.
callsOf(listing) ==
    [transition |-> IF "status" \in DOMAIN listing.fields THEN 1 ELSE 0,
     update |-> IF DOMAIN listing.fields \ {"status"} # {} THEN 1 ELSE 0,
     delete |-> IF listing.deleted THEN 1 ELSE 0]

\* The mutations in the log of the ticket the step ends are those the plan
\* lists for the ticket as apply read it.
endsAsPlanned ==
    LET listing == planned(Val(apply'.ticket))
    IN  applied(apply'.log) =
            [deleted |-> listing.deleted, fields |-> listing.fields,
             comments |-> listing.comments, links |-> listing.links,
             calls |-> callsOf(listing)]

\* The step ends the turn of a ticket.
endsTicket ==
    /\ apply.pc \notin {"idle", "done"}
    /\ apply'.pc # "idle"
    /\ Len(apply'.out) > Len(apply.out)

keyMatches(call) ==
    {f \in ticketFiles(call.dir) :
        upperCase(frontmatterKey(f)) = upperCase(trim(stripMd(call.input)))}

\* C39: resolution by remote key never silently picks one of several
\* records.  When records of two different hosts have the key, resolving it
\* fails; with exactly one record of the key it returns that record; with
\* none it fails with NotFound.
ResolveByKeyNeverPicks ==
    (/\ lib.fn = "resolveId"
     /\ IsSome(lib.result)
     /\ isJiraKey(trim(stripMd(lib.input)))) =>
        LET r == Val(lib.result)
            hits == keyMatches(lib)
        IN  /\ (\E f, g \in hits : frontmatterHost(f) # frontmatterHost(g)) => ~r.ok
            /\ Cardinality(hits) = 1 =>
                   r.ok /\ \A f \in hits : r.id = stripMd(f) /\ r.host = frontmatterHost(f)
            /\ hits = {} => ~r.ok /\ r.error = "NotFound"

\* C40: the paged search terminates for every sequence of server page
\* responses.  The totals a server reports are bounded, so the loop ends if
\* and only if every turn that does not end it moves `startAt` forward:
\* each page answered either ends the search or advances `startAt`.
SearchPageEndsOrAdvances ==
    [][(lib.fn = "searchAll" /\ ~IsSome(lib.result) /\ ~IsSome(lib'.result)) =>
          lib'.startAt > lib.startAt]_vars

====
